---- MODULE Spec2Model ----
(***************************************************************************)
(* The local MCP client/bridge of electron/mcp-types.js and               *)
(* electron/mcp-bridge.mjs: the stdout framer (_parseJsonResponses), the  *)
(* StdioClientTransport request/response correlation, and the connection  *)
(* registry (getOrCreateClient / cleanupClients).                         *)
(*                                                                         *)
(* Text is a sequence of one-character strings.  The alphabet used by the *)
(* inputs below has no backslash, no '-', no '.', so string escapes,      *)
(* negative numbers and fractions are outside the modelled JSON subset.   *)
(***************************************************************************)
EXTENDS Integers, Sequences, FiniteSets, TLC

\* ------------------------------------------------------------------ text

Q == "\""

\* The characters String.prototype.trim() strips that the inputs can hold;
\* they are also JSON's insignificant whitespace.
IsWs(c) == c \in {" ", "\n"}

IsDigit(c) == c \in {"0", "1", "2", "3", "4", "5", "6", "7", "8", "9"}

DigitVal(c) ==
    CASE c = "0" -> 0 [] c = "1" -> 1 [] c = "2" -> 2 [] c = "3" -> 3
      [] c = "4" -> 4 [] c = "5" -> 5 [] c = "6" -> 6 [] c = "7" -> 7
      [] c = "8" -> 8 [] c = "9" -> 9

\* text.substring(from) with a 0-based `from`, on 1-based sequences.
Substring(s, from) == SubSeq(s, from + 1, Len(s))

\* text.substring(0, to)
Prefix(s, to) == SubSeq(s, 1, to)

RECURSIVE TrimStart(_)
TrimStart(s) ==
    IF Len(s) > 0 /\ IsWs(s[1]) THEN TrimStart(Tail(s)) ELSE s

RECURSIVE TrimEnd(_)
TrimEnd(s) ==
    IF Len(s) > 0 /\ IsWs(s[Len(s)]) THEN TrimEnd(SubSeq(s, 1, Len(s) - 1)) ELSE s

\* String.prototype.trim
Trim(s) == TrimEnd(TrimStart(s))

\* ------------------------------------------------------------ JSON values

Num(n) == [t |-> "num", n |-> n]
Str(s) == [t |-> "str", s |-> s]
Obj(m) == [t |-> "obj", m |-> m]       \* m: sequence of <<key text, value>>
Arr(a) == [t |-> "arr", a |-> a]
JTrue == [t |-> "true"]
JFalse == [t |-> "false"]
JNull == [t |-> "null"]
Undefined == [t |-> "undefined"]

\* obj[key] of a parsed value: the last member of that name, undefined when
\* there is none or when the value is a primitive.
RECURSIVE Lookup(_, _, _)
Lookup(m, key, i) ==
    IF i = 0 THEN Undefined
    ELSE IF m[i][1] = key THEN m[i][2]
    ELSE Lookup(m, key, i - 1)

Get(v, key) == IF v.t = "obj" THEN Lookup(v.m, key, Len(v.m)) ELSE Undefined

\* JavaScript truthiness of a parsed JSON value.
Truthy(v) ==
    CASE v.t = "num" -> v.n # 0
      [] v.t = "str" -> Len(v.s) > 0
      [] v.t \in {"false", "null", "undefined"} -> FALSE
      [] OTHER -> TRUE

\* --------------------------------------------------------------- JSON.parse

ParseFail == [ok |-> FALSE, pos |-> 0, val |-> Undefined]
ParseOk(v, p) == [ok |-> TRUE, pos |-> p, val |-> v]

At(s, i) == IF i >= 1 /\ i <= Len(s) THEN s[i] ELSE "EOF"

RECURSIVE SkipWs(_, _)
SkipWs(s, i) == IF IsWs(At(s, i)) THEN SkipWs(s, i + 1) ELSE i

\* index of the quote closing the string opened before i; 0 when the string is
\* unterminated or holds a raw control character (a newline)
RECURSIVE StringEnd(_, _)
StringEnd(s, i) ==
    CASE At(s, i) = Q -> i
      [] At(s, i) \in {"EOF", "\n"} -> 0
      [] OTHER -> StringEnd(s, i + 1)

ParseString(s, i) ==
    LET j == StringEnd(s, i + 1)
    IN IF j = 0 THEN ParseFail ELSE ParseOk(Str(SubSeq(s, i + 1, j - 1)), j + 1)

RECURSIVE DigitsEnd(_, _)
DigitsEnd(s, i) == IF IsDigit(At(s, i)) THEN DigitsEnd(s, i + 1) ELSE i

RECURSIVE DigitsVal(_, _, _, _)
DigitsVal(s, i, j, acc) ==
    IF i >= j THEN acc ELSE DigitsVal(s, i + 1, j, acc * 10 + DigitVal(s[i]))

RECURSIVE Pow10(_)
Pow10(e) == IF e = 0 THEN 1 ELSE 10 * Pow10(e - 1)

\* int [exp]: a leading 0 ends the integer part; an exponent needs a digit
ParseNumber(s, i) ==
    LET j == IF s[i] = "0" THEN i + 1 ELSE DigitsEnd(s, i)
        n == DigitsVal(s, i, j, 0)
    IN IF At(s, j) \in {"e", "E"}
       THEN LET k == DigitsEnd(s, j + 1)
            IN IF k = j + 1 THEN ParseFail
               ELSE ParseOk(Num(n * Pow10(DigitsVal(s, j + 1, k, 0))), k)
       ELSE ParseOk(Num(n), j)

ParseLiteral(s, i, word, v) ==
    IF i + Len(word) - 1 <= Len(s) /\ SubSeq(s, i, i + Len(word) - 1) = word
    THEN ParseOk(v, i + Len(word))
    ELSE ParseFail

RECURSIVE ParseValue(_, _)
RECURSIVE ParseMembers(_, _, _)
RECURSIVE ParseElements(_, _, _)

\* members of an object from the key at i on, up to the closing brace
ParseMembers(s, i, acc) ==
    IF At(s, i) # Q THEN ParseFail
    ELSE LET k == ParseString(s, i)
         IN IF ~k.ok THEN ParseFail
            ELSE LET c == SkipWs(s, k.pos)
                 IN IF At(s, c) # ":" THEN ParseFail
                    ELSE LET v == ParseValue(s, SkipWs(s, c + 1))
                         IN IF ~v.ok THEN ParseFail
                            ELSE LET e == SkipWs(s, v.pos)
                                     acc2 == Append(acc, <<k.val.s, v.val>>)
                                 IN CASE At(s, e) = "}" -> ParseOk(Obj(acc2), e + 1)
                                      [] At(s, e) = "," ->
                                            ParseMembers(s, SkipWs(s, e + 1), acc2)
                                      [] OTHER -> ParseFail

\* elements of an array from the value at i on, up to the closing bracket
ParseElements(s, i, acc) ==
    LET v == ParseValue(s, i)
    IN IF ~v.ok THEN ParseFail
       ELSE LET e == SkipWs(s, v.pos)
                acc2 == Append(acc, v.val)
            IN CASE At(s, e) = "]" -> ParseOk(Arr(acc2), e + 1)
                 [] At(s, e) = "," -> ParseElements(s, SkipWs(s, e + 1), acc2)
                 [] OTHER -> ParseFail

ParseValue(s, i) ==
    LET c == At(s, i)
    IN CASE c = "{" ->
              LET j == SkipWs(s, i + 1)
              IN IF At(s, j) = "}" THEN ParseOk(Obj(<<>>), j + 1)
                 ELSE ParseMembers(s, j, <<>>)
         [] c = "[" ->
              LET j == SkipWs(s, i + 1)
              IN IF At(s, j) = "]" THEN ParseOk(Arr(<<>>), j + 1)
                 ELSE ParseElements(s, j, <<>>)
         [] c = Q -> ParseString(s, i)
         [] IsDigit(c) -> ParseNumber(s, i)
         [] c = "t" -> ParseLiteral(s, i, <<"t", "r", "u", "e">>, JTrue)
         [] c = "f" -> ParseLiteral(s, i, <<"f", "a", "l", "s", "e">>, JFalse)
         [] c = "n" -> ParseLiteral(s, i, <<"n", "u", "l", "l">>, JNull)
         [] OTHER -> ParseFail

\* JSON.parse(text): one value, whitespace around it, nothing else; ok = FALSE
\* stands for the SyntaxError it throws.
JSONParse(text) ==
    LET r == ParseValue(text, SkipWs(text, 1))
    IN IF r.ok /\ SkipWs(text, r.pos) = Len(text) + 1
       THEN [ok |-> TRUE, val |-> r.val]
       ELSE [ok |-> FALSE, val |-> Undefined]

\* ------------------------------------------------------------ the framer

\* The inner for loop of _parseJsonResponses: the 1-based index of the first
\* '}' at which the raw counts of '{' and '}' are equal (endPos), -1 if none.
\* A faulty scan: the first '}' ends the object, whatever has been opened.
RECURSIVE FirstClose(_, _, _, _)
FirstClose(remaining, i, openBrackets, closeBrackets) ==
    IF i > Len(remaining) THEN -1
    ELSE IF remaining[i] = "}" THEN i
    ELSE FirstClose(remaining, i + 1, openBrackets, closeBrackets)

RECURSIVE FindEndPos(_, _, _, _)
FindEndPos(remaining, i, openBrackets, closeBrackets) ==
    IF i > Len(remaining) THEN -1
    ELSE LET o == IF remaining[i] = "{" THEN openBrackets + 1 ELSE openBrackets
             c == IF remaining[i] = "}" THEN closeBrackets + 1 ELSE closeBrackets
         IN IF remaining[i] = "}" /\ o = c THEN i
            ELSE FindEndPos(remaining, i + 1, o, c)

\* The while loop of _parseJsonResponses.
RECURSIVE ParseLoop(_, _)
ParseLoop(remaining, responses) ==
    IF Len(remaining) = 0 THEN responses
    ELSE LET whole == JSONParse(remaining)
         IN IF whole.ok THEN Append(responses, whole.val)
            ELSE LET endPos == FindEndPos(remaining, 1, 0, 0)
                 IN IF endPos = -1 THEN responses
                    ELSE LET p == JSONParse(Prefix(remaining, endPos))
                         IN IF p.ok
                            THEN ParseLoop(Trim(Substring(remaining, endPos)),
                                           Append(responses, p.val))
                            ELSE ParseLoop(Trim(Substring(remaining, 1)), responses)

ParseJsonResponses(text) == ParseLoop(Trim(text), <<>>)

\* --------------------------------------------------- what the child writes

\* Bounds of the model.
MaxReq == 2          \* requests sent on one transport
MaxFeeds == 3        \* stdout chunks one stream is split into

\* A caller that supplies an id supplies 1, the first id the counter assigns
\* (cid = 0: no id supplied).  The child answers the ids the counter can
\* assign, so with fewer requests sent some answers match no request.
CallerIds == {1}
ChildIds == 1..MaxReq

Letter(n) == CASE n = 1 -> "a" [] n = 2 -> "b" [] n = 3 -> "c" [] OTHER -> "z"
DigitChar(d) ==
    CASE d = 0 -> "0" [] d = 1 -> "1" [] d = 2 -> "2" [] d = 3 -> "3" [] d = 4 -> "4"
      [] d = 5 -> "5" [] d = 6 -> "6" [] d = 7 -> "7" [] d = 8 -> "8" [] d = 9 -> "9"

\* decimal text of a natural number (JSON.stringify / String of an integer)
RECURSIVE NatText(_)
NatText(n) == IF n < 10 THEN <<DigitChar(n)>> ELSE Append(NatText(n \div 10), DigitChar(n % 10))

KeyText(k) == <<Q>> \o k \o <<Q>>
KId == <<"i", "d">>
KResult == <<"r", "e", "s", "u", "l", "t">>
KError == <<"e", "r", "r", "o", "r">>
KMethod == <<"m", "e", "t", "h", "o", "d">>
KMessage == <<"m", "e", "s", "s", "a", "g", "e">>

\* The responses a child may write, by shape:
\*   "result"    {"id":N,"result":"<p>"}
\*   "brace"     the same, the result string holding an unbalanced '}'
\*   "nested"    the same, the result string holding a balanced "{<p>}"
\*   "error"     {"id":N,"error":{"message":"E<p>"}}
\*   "errnomsg"  {"id":N,"error":{}}
\*   "noid"      {"result":"<p>"}
\* (the "jsonrpc" member, which _handleProcessOutput never reads, is left out)
\* where <p> is the letter of the id, so every id has its own payload.
Kinds == {"result", "brace", "nested", "error", "errnomsg"}
Desc(id, kind) == [id |-> id, kind |-> kind]

ResultText(d) ==
    CASE d.kind \in {"result", "noid"} -> <<Letter(d.id)>>
      [] d.kind = "brace" -> <<Letter(d.id), "}">>
      [] d.kind = "nested" -> <<"{", Letter(d.id), "}">>

Render(d) ==
    <<"{">> \o (IF d.kind = "noid" THEN <<>>
                ELSE KeyText(KId) \o <<":">> \o NatText(d.id) \o <<",">>)
      \o (CASE d.kind \in {"result", "brace", "nested", "noid"} ->
                 KeyText(KResult) \o <<":">> \o KeyText(ResultText(d))
            [] d.kind = "error" ->
                 KeyText(KError) \o <<":", "{">> \o KeyText(KMessage) \o <<":">>
                   \o KeyText(<<"E", Letter(d.id)>>) \o <<"}">>
            [] d.kind = "errnomsg" -> KeyText(KError) \o <<":", "{", "}">>)
      \o <<"}">>

\* How the future of the request answered by d must settle.
Resolved(v) == [st |-> "resolved", v |-> v]
Rejected(m) == [st |-> "rejected", v |-> Str(m)]
Pending == [st |-> "pending", v |-> Undefined]

MsgUnknown == <<"Unknown error">>
MsgTimeout == <<"Request timed out after 30 seconds">>
MsgWrite == <<"Failed to write to process">>
MsgNoProcess == <<"Process not available">>
MsgNotConnected == <<"Client not connected">>

\* What getOrCreateClient throws when the spawn promise is rejected
ErrNone == ""
ErrSpawn == "Failed to create MCP process: spawn error"
ErrExitCode == "Failed to create MCP process: Process exited with code N"
ErrStartup == "Failed to create MCP process: Process startup error: command not found"
ErrKilled == "Failed to create MCP process: Process was killed during startup"
\* What it throws when the transport cannot be built or connect fails
ErrTransport == "Failed to create MCP transport: error"
ErrConnect == "connect error"

Expected(d) ==
    CASE d.kind \in {"result", "brace", "nested"} -> Resolved(Str(ResultText(d)))
      [] d.kind = "error" -> Rejected(<<"E", Letter(d.id)>>)
      [] d.kind = "errnomsg" -> Rejected(MsgUnknown)

RECURSIVE Concat(_, _)
Concat(texts, sep) ==
    IF Len(texts) = 0 THEN <<>>
    ELSE IF Len(texts) = 1 THEN texts[1]
    ELSE texts[1] \o sep \o Concat(Tail(texts), sep)

RenderAll(ds, sep) == Concat([i \in 1..Len(ds) |-> Render(ds[i])], sep)

\* A chunk of stdout: responses ds, separated by sep, followed by trail.
Chunk(ds, sep, trail) == [ds |-> ds, sep |-> sep, trail |-> trail]
ChunkText(c) == RenderAll(c.ds, c.sep) \o c.trail

Descs == {Desc(id, k) : id \in ChildIds, k \in {"result", "error"}}
           \cup {Desc(1, "errnomsg")}
Noise == <<" ", "o", "k", "}", "\n">>

\* single responses; two responses back to back, the first one plain, with an
\* unbalanced or with a balanced brace in its string; two responses on two
\* lines, followed by a newline or by text that is no JSON; no response at all
ChunkSet ==
    {Chunk(<<d>>, <<>>, <<>>) : d \in Descs \cup {Desc(0, "result"), Desc(0, "noid")}}
      \cup {Chunk(<<Desc(p[1], k), Desc(p[2], "result")>>, <<>>, <<>>) :
              p \in {<<1, 2>>, <<2, 1>>, <<1, 1>>}, k \in {"result", "brace", "nested"}}
      \cup {Chunk(<<Desc(p[1], "result"), Desc(p[2], "error")>>, <<"\n">>, t) :
              p \in {<<1, 2>>, <<2, 1>>}, t \in {<<"\n">>, Noise}}
      \cup {Chunk(<<>>, <<>>, t) : t \in {Noise, <<"n", "u", "l", "l">>}}

\* ------------------------------------------------------------- state

VARIABLES
    responseHandlers,   \* StdioClientTransport.responseHandlers: id -> the request
                        \* whose {resolve, reject} closures are stored under it
    lastRequestId,      \* StdioClientTransport.lastRequestId
    stdin,              \* the lines written to process.stdin, in order
    reqs,               \* the futures returned by sendRequest, in call order:
                        \* [id, out, write, timer]
    killed,             \* this.process.killed
    settleLog,          \* history: the requests in the order their futures settled
    stream,             \* which of Streams the child writes in one burst (0: none)
    fed,                \* how many characters of stream have been delivered
    feeds,              \* how many 'data' events delivered them
    emitted,            \* history: the objects the framer has emitted from stream
    procs,              \* the child processes spawned so far: [key, cmd, state, killed]
    activeClients,      \* Map serverId -> {client, transport}, in insertion order
    activeProcesses,    \* Map serverId -> process, in insertion order
    calls,              \* the calls of getOrCreateClient so far, and where each stands
    cleanups,           \* history: how many cleanupClients calls have completed
    cleanupThrew,       \* history: a cleanupClients call ended in an exception
    killAttempts,       \* history: the processes the latest cleanupClients called kill() on
    returned,           \* history: per serverId, the connection the latest completed
                        \* getOrCreateClient returned since the last cleanup (0: none)
    isConnected,        \* Client.isConnected of the client over the transport
    clientTransport,    \* Client.transport: "null" or "set"
    exited,             \* the transport's child process has exited
    quit,               \* the main process has run its shutdown hook and exited
    stderrSeen,         \* history: the transport's stderr listener has run
    skipped,            \* history: the loop of _handleProcessOutput has passed over
                        \* a response object
    arg,                \* the argument of the function being called
    ret,                \* what the call came back with
    messages,           \* renderer: the pendingMCP of each assistant message
                        \* of the active chat that carries one, with the number
                        \* of times executeMCPServer was invoked for it
    approvals,          \* renderer: the approval calls made so far
    handlers            \* the IPC handlers that got a connection, by their call of
                        \* getOrCreateClient: [kind, pc, req, tools, prompts, result]

tvars == <<responseHandlers, lastRequestId, stdin, reqs, killed, settleLog>>
svars == <<stream, fed, feeds, emitted>>
rvars == <<procs, activeClients, activeProcesses, calls, cleanups,
           cleanupThrew, killAttempts, returned>>
cvars == <<isConnected, clientTransport, exited>>
fvars == <<arg, ret>>
avars == <<messages, approvals>>
hvars == <<stderrSeen, skipped, fvars, avars>>
mvars == <<quit, handlers, hvars>>
vars == <<tvars, svars, rvars, cvars, mvars>>

\* ---------------------------------------------------- StdioClientTransport

\* String(v) of a parsed value, as new Error(v) stores its message.
RECURSIVE ToStr(_)
RECURSIVE JoinElems(_, _)
JoinElems(a, i) ==
    IF i > Len(a) THEN <<>>
    ELSE (IF a[i].t \in {"null", "undefined"} THEN <<>> ELSE ToStr(a[i]))
           \o (IF i < Len(a) THEN <<",">> ELSE <<>>) \o JoinElems(a, i + 1)
ToStr(v) ==
    CASE v.t = "str" -> v.s
      [] v.t = "num" -> NatText(v.n)
      [] v.t = "obj" -> <<"[object Object]">>
      [] v.t = "arr" -> JoinElems(v.a, 1)
      [] OTHER -> <<v.t>>

\* response.error.message || 'Unknown error'
ErrorMessage(err) ==
    LET m == Get(err, KMessage) IN IF Truthy(m) THEN ToStr(m) ELSE MsgUnknown

\* this.responseHandlers.has(id): the keys registered are numbers, and a Map
\* never equates a number with a string, an object or a boolean.
Has(h, id) == id.t = "num" /\ id.n \in DOMAIN h

MapSet(h, k, v) == [x \in DOMAIN h \cup {k} |-> IF x = k THEN v ELSE h[x]]
MapDelete(h, k) == [x \in DOMAIN h \ {k} |-> h[x]]

\* resolve(..) / reject(..) of request r's promise: the first call settles it,
\* a later call does nothing.
Settle(st, r, out) ==
    IF st.reqs[r].out.st = "pending"
    THEN [st EXCEPT !.reqs[r].out = out, !.log = Append(@, r)]
    ELSE st

\* A faulty loop body: response.error is never looked at.
HandleResponseNoError(st, response) ==
    LET id == Get(response, KId)
    IN IF Truthy(id) /\ Has(st.h, id)
       THEN Settle([st EXCEPT !.h = MapDelete(@, id.n)], st.h[id.n],
                   Resolved(Get(response, KResult)))
       ELSE st

\* A faulty loop body: a response with an unknown id is given to the oldest
\* registered handler.
HandleResponseAny(st, response) ==
    LET id == Get(response, KId)
        known == Truthy(id) /\ Has(st.h, id)
        k == IF known THEN id.n
             ELSE CHOOSE j \in DOMAIN st.h : \A i \in DOMAIN st.h : j <= i
    IN IF known \/ DOMAIN st.h # {}
       THEN Settle([st EXCEPT !.h = MapDelete(@, k)], st.h[k],
                   Resolved(Get(response, KResult)))
       ELSE st

\* The body of the for loop of _handleProcessOutput for one response.
HandleResponse(st, response) ==
    LET id == Get(response, KId)
    IN IF Truthy(id) /\ Has(st.h, id)
       THEN LET r == st.h[id.n]
                err == Get(response, KError)
                st2 == [st EXCEPT !.h = MapDelete(@, id.n)]
            IN IF Truthy(err)
               THEN Settle(st2, r, Rejected(ErrorMessage(err)))
               ELSE Settle(st2, r, Resolved(Get(response, KResult)))
       ELSE st

\* The for loop of _handleProcessOutput.  Reading .id of null throws a
\* TypeError, which the enclosing try/catch logs: the loop ends there.
RECURSIVE SettleLoop(_, _, _)
SettleLoop(responses, i, st) ==
    IF i > Len(responses) \/ responses[i].t = "null" THEN st
    ELSE SettleLoop(responses, i + 1, HandleResponse(st, responses[i]))

TState == [h |-> responseHandlers, reqs |-> reqs, log |-> settleLog]

\* _handleProcessOutput(data), given what _parseJsonResponses(data) returned
SettleResponses(responses) ==
    LET st == SettleLoop(responses, 1, TState)
    IN /\ responseHandlers' = st.h
       /\ reqs' = st.reqs
       /\ settleLog' = st.log
       /\ UNCHANGED <<lastRequestId, stdin, killed>>

\* _handleProcessOutput(data) on the text of one chunk
HandleProcessOutput(text) == SettleResponses(ParseJsonResponses(text))

\* _parseJsonResponses of every chunk of ChunkSet, evaluated once
Framed == [c \in ChunkSet |-> ParseJsonResponses(ChunkText(c))]

\* _handleProcessOutput(data) on chunk c
Deliver(c) ==
    /\ c \in ChunkSet
    /\ stream = 0
    /\ SettleResponses(Framed[c])
    /\ UNCHANGED <<svars, rvars, cvars, quit, handlers>>

\* stdout 'data' event carrying chunk c
Output(c) == Deliver(c) /\ UNCHANGED hvars

\* Whether the loop of _handleProcessOutput, from response i on, passes over
\* an object: one for which 'response.id && this.responseHandlers.has(..)'
\* is false when the loop reaches it.
RECURSIVE Skipped(_, _, _)
Skipped(responses, i, st) ==
    IF i > Len(responses) \/ responses[i].t = "null" THEN FALSE
    ELSE LET id == Get(responses[i], KId)
         IN \/ ~(Truthy(id) /\ Has(st.h, id))
            \/ Skipped(responses, i + 1, HandleResponse(st, responses[i]))

\* stdout 'data' event carrying chunk c, with its history
ClientOutput(c) ==
    /\ Deliver(c)
    /\ skipped' = (skipped \/ Skipped(Framed[c], 1, TState))
    /\ UNCHANGED <<stderrSeen, fvars, avars>>

\* stderr 'data' event of the transport's child: the listener logs the text
StderrData ==
    /\ stderrSeen' = TRUE
    /\ UNCHANGED <<tvars, svars, rvars, cvars, quit, handlers, skipped, fvars, avars>>

Reqs == 1..Len(reqs)
IsPending(r) == reqs[r].out.st = "pending"

KJsonrpc == <<"j", "s", "o", "n", "r", "p", "c">>

\* JSON.stringify of a value of the modelled subset (strings hold nothing
\* that needs an escape)
RECURSIVE Stringify(_)
Stringify(v) ==
    CASE v.t = "num" -> NatText(v.n)
      [] v.t = "str" -> KeyText(v.s)
      [] v.t = "arr" ->
           <<"[">> \o Concat([i \in 1..Len(v.a) |-> Stringify(v.a[i])], <<",">>) \o <<"]">>
      [] v.t = "obj" ->
           <<"{">> \o Concat([i \in 1..Len(v.m) |->
                                KeyText(v.m[i][1]) \o <<":">> \o Stringify(v.m[i][2])],
                             <<",">>) \o <<"}">>
      [] OTHER -> <<v.t>>

\* The request objects callers pass: {method} without an id, and
\* {method, id: cid, jsonrpc: "1.0"} for a caller that supplies id cid.
RequestObj(cid, method) ==
    Obj(<< <<KMethod, Str(<<method>>)>> >>
        \o (IF cid = 0 THEN <<>>
            ELSE << <<KId, Num(cid)>>, <<KJsonrpc, Str(<<"1", ".", "0">>)>> >>))

\* obj[key] = val on a copy: an own member keeps its place, a new one is
\* added at the end.
ObjSet(v, key, val) ==
    IF \E i \in 1..Len(v.m) : v.m[i][1] = key
    THEN Obj([i \in 1..Len(v.m) |-> IF v.m[i][1] = key THEN <<key, val>> ELSE v.m[i]])
    ELSE Obj(Append(v.m, <<key, val>>))

\* A faulty request line: the caller's object is written as it came.
RequestLineAsGiven(requestObj, requestId) ==
    Stringify(requestObj) \o <<"\n">>

\* JSON.stringify({...requestObj, id: requestId, jsonrpc: "2.0"}) + '\n'
RequestLine(requestObj, requestId) ==
    Stringify(ObjSet(ObjSet(requestObj, KId, Num(requestId)),
                     KJsonrpc, Str(<<"2", ".", "0">>))) \o <<"\n">>

\* The body of sendRequest(requestObj) for the request object of method
\* 'method'; cid = 0 stands for a request object without an id (or with a
\* falsy one), any other cid for requestObj.id.
SendObj(cid, method) ==
    LET r == Len(reqs) + 1
    IN IF killed
       THEN /\ reqs' = Append(reqs, [id |-> 0, out |-> Rejected(MsgNoProcess),
                                     write |-> "none", timer |-> "none"])
            /\ settleLog' = Append(settleLog, r)
            /\ UNCHANGED <<responseHandlers, lastRequestId, stdin>>
       ELSE LET requestId == IF cid # 0 THEN cid ELSE lastRequestId + 1
            IN /\ lastRequestId' = IF cid # 0 THEN lastRequestId ELSE lastRequestId + 1
               /\ responseHandlers' = MapSet(responseHandlers, requestId, r)
               /\ stdin' = Append(stdin, RequestLine(RequestObj(cid, method), requestId))
               /\ reqs' = Append(reqs, [id |-> requestId, out |-> Pending,
                                        write |-> "inflight", timer |-> "armed"])
               /\ UNCHANGED settleLog

\* sendRequest of a request whose method plays no part
Send(cid) == SendObj(cid, "ping")

\* sendRequest(requestObj) called on the transport
SendRequest(cid) ==
    /\ Len(reqs) < MaxReq
    /\ cid \in {0} \cup CallerIds
    /\ Send(cid)
    /\ UNCHANGED <<killed, svars, rvars, cvars, mvars>>

\* The callback of process.stdin.write reporting an error for request r.  (A
\* callback without an error changes nothing, so it is no step.)  Callbacks
\* run in the order of the writes: the callback of r does not come after
\* the callback of a later write.
WriteError(r) ==
    /\ r \in 1..Len(reqs)
    /\ reqs[r].write = "inflight"
    /\ \A q \in (r + 1)..Len(reqs) : reqs[q].write # "failed"
    /\ LET st == Settle([TState EXCEPT !.reqs[r].write = "failed",
                                       !.h = MapDelete(@, reqs[r].id)],
                        r, Rejected(MsgWrite))
       IN /\ responseHandlers' = st.h
          /\ reqs' = st.reqs
          /\ settleLog' = st.log
    /\ UNCHANGED <<lastRequestId, stdin, killed, svars, rvars, cvars, mvars>>

\* The setTimeout(.., 30000) callback of request r; equal delays fire in the
\* order they were armed.
Timeout(r) ==
    /\ r \in 1..Len(reqs)
    /\ reqs[r].timer = "armed"
    /\ \A q \in 1..(r - 1) : reqs[q].timer # "armed"
    /\ LET st0 == [TState EXCEPT !.reqs[r].timer = "fired"]
           st == IF reqs[r].id \in DOMAIN responseHandlers
                 THEN Settle([st0 EXCEPT !.h = MapDelete(@, reqs[r].id)], r,
                             Rejected(MsgTimeout))
                 ELSE st0
       IN /\ responseHandlers' = st.h
          /\ reqs' = st.reqs
          /\ settleLog' = st.log
    /\ UNCHANGED <<lastRequestId, stdin, killed, svars, rvars, cvars, mvars>>

\* process.kill() of the transport's process: the signal is delivered, and
\* process.killed set, only while the process has not exited.
KillProcess == killed' = (killed \/ ~exited)

\* close(): if (this.process && !this.process.killed) this.process.kill()
Close ==
    /\ ~killed
    /\ KillProcess
    /\ UNCHANGED <<responseHandlers, lastRequestId, stdin, reqs, settleLog, svars, rvars,
                   cvars, mvars>>

\* The child process of the transport exits on its own: the 'close' listener
\* of the constructor logs it.
ChildExit ==
    /\ ~exited
    /\ exited' = TRUE
    /\ UNCHANGED <<tvars, svars, rvars, isConnected, clientTransport, mvars>>

\* ------------------------------------------------------------- Client

\* A faulty test: the client always passes for connected.
AlwaysConnected == FALSE

\* !this.isConnected || !this.transport
NotConnected == ~isConnected \/ clientTransport = "null"

\* connect(transport)
Connect ==
    /\ clientTransport' = "set"
    /\ isConnected' = TRUE
    /\ UNCHANGED <<tvars, svars, rvars, exited, mvars>>

\* disconnect(): the transport, if there is one, is closed, then the client
\* is marked disconnected
Disconnect ==
    /\ IF clientTransport = "set" /\ ~killed THEN KillProcess ELSE UNCHANGED killed
    /\ isConnected' = FALSE
    /\ UNCHANGED <<responseHandlers, lastRequestId, stdin, reqs, settleLog, svars, rvars,
                   clientTransport, exited, mvars>>

\* The body of request(requestObj): 'Client not connected' is thrown, which
\* rejects the promise of the async function, or the transport's sendRequest
\* is awaited.
Request(cid) ==
    IF NotConnected
    THEN /\ reqs' = Append(reqs, [id |-> 0, out |-> Rejected(MsgNotConnected),
                                  write |-> "none", timer |-> "none"])
         /\ settleLog' = Append(settleLog, Len(reqs) + 1)
         /\ UNCHANGED <<responseHandlers, lastRequestId, stdin>>
    ELSE Send(cid)

\* request(requestObj) called on the client
ClientRequest(cid) ==
    /\ Len(reqs) < MaxReq
    /\ cid \in {0} \cup CallerIds
    /\ Request(cid)
    /\ UNCHANGED <<killed, svars, rvars, cvars, mvars>>

\* callTool(options): the same test, then this.request of a tools/call
\* request object that carries no id
CallTool ==
    /\ Len(reqs) < MaxReq
    /\ IF NotConnected
       THEN /\ reqs' = Append(reqs, [id |-> 0, out |-> Rejected(MsgNotConnected),
                                     write |-> "none", timer |-> "none"])
            /\ settleLog' = Append(settleLog, Len(reqs) + 1)
            /\ UNCHANGED <<responseHandlers, lastRequestId, stdin>>
       ELSE Request(0)
    /\ UNCHANGED <<killed, svars, rvars, cvars, mvars>>

\* ------------------------------------------------- one stream, in chunks

\* What the child writes in one burst: the example of the specification,
\* {"a":1}{"b":2}; one response; two responses, one per line.
ExampleA == <<"{", Q, "a", Q, ":", "1", "}">>
ExampleB == <<"{", Q, "b", Q, ":", "2", "}">>
StreamExample == ExampleA \o ExampleB
StreamOne == Render(Desc(1, "result"))
StreamTwo == Render(Desc(1, "result")) \o <<"\n">> \o Render(Desc(2, "error")) \o <<"\n">>
Streams == <<StreamExample, StreamOne, StreamTwo>>
StreamIds == 1..Len(Streams)
StreamLen(s) == Len(Streams[s])

\* _parseJsonResponses of every piece a stream can be cut into, evaluated once
FramedPiece ==
    [s \in StreamIds |->
        [i \in 0..(StreamLen(s) - 1) |->
            [j \in 1..StreamLen(s) |->
                IF i < j THEN ParseJsonResponses(SubSeq(Streams[s], i + 1, j)) ELSE <<>>]]]

\* stdout 'data' event carrying the next k characters of the stream
Feed(k) ==
    /\ feeds < MaxFeeds
    /\ k \in 1..(StreamLen(stream) - fed)
    /\ LET responses == FramedPiece[stream][fed][fed + k]
       IN /\ SettleResponses(responses)
          /\ emitted' = emitted \o responses
    /\ fed' = fed + k
    /\ feeds' = feeds + 1
    /\ UNCHANGED <<stream, rvars, cvars, mvars>>

\* the next 'data' event, carrying any number of the characters left
FeedChunk == \E k \in 1..StreamLen(stream) : Feed(k)

\* ----------------------------------------------------------- the registry

MaxCalls == 2        \* calls of getOrCreateClient
MaxCleanups == 2     \* calls of cleanupClients

Keys == {"s1", "s2"}              \* serverId
Commands == {"node", "python"}    \* serverCommand
\* the (serverId, serverCommand) pairs getOrCreateClient is called with
ServerCalls == {<<"s1", "node">>, <<"s1", "python">>, <<"s2", "node">>}

\* A Map as the sequence of its <<key, value>> entries in insertion order.
MHas(m, k) == \E i \in 1..Len(m) : m[i][1] = k
MGet(m, k) == m[CHOOSE i \in 1..Len(m) : m[i][1] = k][2]
MPut(m, k, v) ==
    IF MHas(m, k) THEN [i \in 1..Len(m) |-> IF m[i][1] = k THEN <<k, v>> ELSE m[i]]
    ELSE Append(m, <<k, v>>)

\* {client, transport}: id names the object (the call that built it), pid the
\* process its transport owns.
Connection(id, pid) == [id |-> id, pid |-> pid]
NoConnection == Connection(0, 0)

\* process.kill(): a signal that is delivered marks the process killed; on a
\* process that has exited kill() returns false; ok[p] = FALSE stands for a
\* kill() of the running process p that fails.
Kill(ps, p, ok) ==
    IF ps[p].state = "running" /\ ok[p]
    THEN [ps EXCEPT ![p].killed = TRUE, ![p].state = "exited"]
    ELSE ps

\* A faulty handler: the exception is passed on.
CleanupRethrow(thrown) == thrown

\* What escapes a try { .. } catch (err) { console.error(..) } of cleanupClients
\* when its body throws: nothing.
CleanupCatch(thrown) == FALSE

\* A faulty lookup: no connection is ever found.
HasClientNever(k) == FALSE

\* activeClients.has(clientKey)
HasClient(k) == MHas(activeClients, k)

\* getOrCreateClient(serverCommand, serverArgs, serverId) up to its return or
\* to the await that suspends it.  A stored connection is returned as it is.
\* With a stored process and no stored connection, the transport and the
\* client are built over that process and the connection is stored and
\* returned: client.connect does no I/O, so the awaits on this path resume
\* in the same turn of the event loop.  Otherwise spawnMCPProcess spawns the
\* child and the call is suspended for the grace period.
GetOrCreateClient(k, cmd) ==
    /\ ~quit
    /\ Len(calls) < MaxCalls
    /\ k \in Keys /\ cmd \in Commands
    /\ LET c == Len(calls) + 1
           call == [key |-> k, cmd |-> cmd, pc |-> "spawn", pid |-> 0,
                    conn |-> NoConnection, spawned |-> FALSE,
                    startupErrorReceived |-> FALSE, timer |-> "none",
                    err |-> ErrNone]
       IN IF HasClient(k)
          THEN /\ calls' = Append(calls, [call EXCEPT !.pc = "returned",
                                                      !.conn = MGet(activeClients, k)])
               /\ returned' = [returned EXCEPT ![k] = MGet(activeClients, k).id]
               /\ UNCHANGED <<procs, activeClients>>
          ELSE IF MHas(activeProcesses, k)
          THEN LET connection == Connection(c, MGet(activeProcesses, k))
               IN /\ calls' = Append(calls, [call EXCEPT !.pc = "returned",
                                                         !.pid = connection.pid,
                                                         !.conn = connection])
                  /\ activeClients' = MPut(activeClients, k, connection)
                  /\ returned' = [returned EXCEPT ![k] = c]
                  /\ UNCHANGED procs
          ELSE /\ procs' = Append(procs, [key |-> k, cmd |-> cmd, state |-> "running",
                                          killed |-> FALSE])
               /\ calls' = Append(calls, [call EXCEPT !.pid = Len(procs) + 1,
                                                      !.spawned = TRUE,
                                                      !.timer = "armed"])
               /\ UNCHANGED <<returned, activeClients>>
    /\ UNCHANGED <<activeProcesses, cleanups, cleanupThrew, killAttempts, tvars, svars, cvars, mvars>>

\* A faulty spawn promise: only the 'error' event rejects it.
RejectsOnErrorOnly(ev, flag) == ev = "error"

\* Whether an event of the child rejects the spawn promise; flag is
\* startupErrorReceived before the event.
Rejects(ev, flag) == ev = "error" \/ (ev \in {"exitN", "stderr"} /\ ~flag)

\* The message getOrCreateClient throws when the spawn promise was rejected
\* by the event.
SpawnError(ev) ==
    CASE ev = "error"  -> ErrSpawn
      [] ev = "exitN"  -> ErrExitCode
      [] ev = "stderr" -> ErrStartup
      [] OTHER         -> ErrNone

\* An event of the spawned child during the grace period of spawnMCPProcess:
\*   "error"   the 'error' event (the process could not be started)
\*   "exit0"   'exit' with code 0 or null
\*   "exitN"   'exit' with a non-zero code
\*   "stderr"  stderr data holding ENOENT / command not found / Cannot find module
\* A rejection of the spawn promise makes the suspended getOrCreateClient throw.
SpawnEvent(c, ev) ==
    /\ ~quit
    /\ c \in 1..Len(calls)
    /\ calls[c].timer = "armed"
    /\ procs[calls[c].pid].state = "running"
    /\ ev \in {"error", "exit0", "exitN", "stderr"}
    /\ LET flag == calls[c].startupErrorReceived
           rejects == Rejects(ev, flag)
       IN calls' = [calls EXCEPT
                      ![c].startupErrorReceived = flag \/ ev \in {"error", "exitN", "stderr"},
                      ![c].err = IF rejects /\ calls[c].pc = "spawn" THEN SpawnError(ev) ELSE @,
                      ![c].pc = IF rejects /\ @ = "spawn" THEN "failed" ELSE @]
    /\ procs' = IF ev = "stderr" THEN procs
                ELSE [procs EXCEPT ![calls[c].pid].state = "exited"]
    /\ UNCHANGED <<activeClients, activeProcesses, cleanups, cleanupThrew,
                   killAttempts, returned, tvars, svars, cvars, mvars>>

\* The setTimeout(.., 500) callback of spawnMCPProcess and, when it resolves
\* the promise, the rest of getOrCreateClient: the process is stored, the
\* transport and the client are built, the connection is stored and returned
\* (the awaits on the way resume in the same turn of the event loop).
SpawnTimer(c) ==
    /\ ~quit
    /\ c \in 1..Len(calls)
    /\ calls[c].timer = "armed"
    /\ LET p == calls[c].pid
           k == calls[c].key
           connection == Connection(c, p)
           resolves == /\ calls[c].pc = "spawn"
                       /\ ~procs[p].killed
                       /\ ~calls[c].startupErrorReceived
       IN IF resolves
          THEN /\ calls' = [calls EXCEPT ![c].timer = "fired", ![c].pc = "returned",
                                         ![c].conn = connection]
               /\ activeProcesses' = MPut(activeProcesses, k, p)
               /\ activeClients' = MPut(activeClients, k, connection)
               /\ returned' = [returned EXCEPT ![k] = c]
          ELSE /\ calls' = [calls EXCEPT ![c].timer = "fired",
                                         ![c].err = IF calls[c].pc = "spawn" /\ procs[p].killed
                                                    THEN ErrKilled ELSE @,
                                         ![c].pc = IF @ = "spawn" THEN "failed" ELSE @]
               /\ UNCHANGED <<activeProcesses, activeClients, returned>>
    /\ UNCHANGED <<procs, cleanups, cleanupThrew, killAttempts, tvars, svars, cvars, mvars>>

\* The setTimeout(.., 500) callback of spawnMCPProcess resolving the promise,
\* and the rest of getOrCreateClient when it does not reach its return: the
\* process is stored, then either new StdioClientTransport throws
\* (stage "transport") and the error is rethrown, or client.connect throws
\* (stage "connect"), the transport is closed and the error is rethrown.
\* The Client and the StdioClientTransport of mcp-types.js do not throw here:
\* the step stands for a transport or client that does.
SpawnTimerFailing(c, stage) ==
    /\ ~quit
    /\ c \in 1..Len(calls)
    /\ calls[c].timer = "armed"
    /\ stage \in {"transport", "connect"}
    /\ LET p == calls[c].pid
           k == calls[c].key
       IN /\ calls[c].pc = "spawn"
          /\ ~procs[p].killed
          /\ ~calls[c].startupErrorReceived
          /\ activeProcesses' = MPut(activeProcesses, k, p)
          /\ procs' = IF stage = "connect"
                      THEN Kill(procs, p, [q \in 1..Len(procs) |-> TRUE])
                      ELSE procs
          /\ calls' = [calls EXCEPT ![c].timer = "fired", ![c].pc = "failed",
                                    ![c].err = IF stage = "connect" THEN ErrConnect
                                               ELSE ErrTransport]
    /\ UNCHANGED <<activeClients, returned, cleanups, cleanupThrew, killAttempts,
                   tvars, svars, cvars, mvars>>

Pids(m) == [i \in 1..Len(m) |-> m[i][2]]
ConnectionPids(m) == [i \in 1..Len(m) |-> m[i][2].pid]
Range(f) == {f[i] : i \in DOMAIN f}

\* if (process && !process.killed) process.kill(), for the processes pids in turn
RECURSIVE KillAll(_, _, _, _)
KillAll(ps, pids, i, ok) ==
    IF i > Len(pids) THEN ps
    ELSE KillAll(IF ps[pids[i]].killed THEN ps ELSE Kill(ps, pids[i], ok), pids, i + 1, ok)

\* the running processes cleanupClients calls kill() on
CleanupTargets ==
    {p \in Range(ConnectionPids(activeClients)) \cup Range(Pids(activeProcesses)) :
        procs[p].state = "running" /\ ~procs[p].killed}

Fails(ok, called) == \E p \in called \cap DOMAIN ok : ~ok[p]

\* cleanupClients(); ok says, for each running process it reaches, whether
\* process.kill() on it succeeds.  transport.close() awaits nothing, so the
\* whole function runs in one turn of the event loop.
CleanupClients(ok) ==
    /\ ~quit
    /\ ok \in [CleanupTargets -> BOOLEAN]
    /\ cleanups < MaxCleanups
    /\ LET closed == ConnectionPids(activeClients)
           called1 == {p \in Range(closed) : ~procs[p].killed}
           procs1 == KillAll(procs, closed, 1, ok)
           escapes1 == CleanupCatch(Fails(ok, called1))
           stored == Pids(activeProcesses)
           called2 == {p \in Range(stored) : ~procs1[p].killed}
           procs2 == KillAll(procs1, stored, 1, ok)
           escapes2 == CleanupCatch(Fails(ok, called2))
       IN IF escapes1
          THEN /\ procs' = procs1
               /\ killAttempts' = called1
               /\ cleanupThrew' = TRUE
               /\ UNCHANGED <<activeClients, activeProcesses, returned>>
          ELSE /\ activeClients' = <<>>
               /\ returned' = [k \in Keys |-> 0]
               /\ procs' = procs2
               /\ killAttempts' = called1 \cup called2
               /\ cleanupThrew' = (cleanupThrew \/ escapes2)
               /\ activeProcesses' = IF escapes2 THEN activeProcesses ELSE <<>>
    /\ cleanups' = cleanups + 1
    /\ UNCHANGED <<calls, tvars, svars, cvars, mvars>>

CleanupStep == \E ok \in [CleanupTargets -> BOOLEAN] : CleanupClients(ok)

\* ------------------------------------------------- main process: handlers

MaxSessionId == 3     \* ids the server answers under
MaxSessionReq == 3    \* requests the handlers send on the connection

KTools == <<"t", "o", "o", "l", "s">>
KPrompts == <<"p", "r", "o", "m", "p", "t", "s">>
KContent == <<"c", "o", "n", "t", "e", "n", "t">>
KName == <<"n", "a", "m", "e">>
KType == <<"t", "y", "p", "e">>
KText == <<"t", "e", "x", "t">>
Echo == <<"e", "c", "h", "o">>
Hi == <<"h", "i">>

\* The results a server may answer a request of the handlers with:
\*   "tools"    {"tools":[{"name":"echo"}]}
\*   "content"  {"content":[{"type":"text","text":"hi"}]}
\*   "list"     [{"name":"echo"}]
EchoTools == Arr(<<Obj(<< <<KName, Str(Echo)>> >>)>>)
HiContent == Arr(<<Obj(<< <<KType, Str(KText)>>, <<KText, Str(Hi)>> >>)>>)
SessionResult(kind) ==
    CASE kind = "tools" -> Obj(<< <<KTools, EchoTools>> >>)
      [] kind = "content" -> Obj(<< <<KContent, HiContent>> >>)
      [] kind = "list" -> EchoTools

\* The line the server writes: {"jsonrpc":"2.0","id":N,"result":...}, or the
\* error response of Render
SessionKinds == {"tools", "content", "list", "error"}
SessionRender(d) ==
    IF d.kind = "error" THEN Render(d)
    ELSE <<"{">> \o KeyText(KJsonrpc) \o <<":">> \o KeyText(<<"2", ".", "0">>) \o <<",">>
           \o KeyText(KId) \o <<":">> \o NatText(d.id) \o <<",">>
           \o KeyText(KResult) \o <<":">> \o Stringify(SessionResult(d.kind))
           \o <<"}", "\n">>

SessionChunks == {Desc(id, k) : id \in 1..MaxSessionId, k \in SessionKinds}

\* _parseJsonResponses of every line of SessionChunks, evaluated once
SessionFramed == [d \in SessionChunks |-> ParseJsonResponses(SessionRender(d))]

\* A faulty reading of a list response: nothing is found.
ExtractNone(v, key) == Arr(<<>>)

\* The list handleFetchMCPCapabilities takes from a response: the response
\* itself if it is an array, else its member `key` if that is an array, else
\* the first array among the values of an object, else [].
ExtractList(v, key) ==
    IF ~Truthy(v) THEN Arr(<<>>)
    ELSE IF v.t = "arr" THEN v
    ELSE IF Get(v, key).t = "arr" THEN Get(v, key)
    ELSE IF v.t = "obj" /\ \E i \in 1..Len(v.m) : Get(v, v.m[i][1]).t = "arr"
    THEN Get(v, v.m[CHOOSE i \in 1..Len(v.m) :
                       /\ Get(v, v.m[i][1]).t = "arr"
                       /\ \A j \in 1..(i - 1) : Get(v, v.m[j][1]).t # "arr"][1])
    ELSE Arr(<<>>)

\* What an IPC handler returns to the renderer
NoError == JNull
IpcResult(tools, prompts, output, error) ==
    [tools |-> tools, prompts |-> prompts, output |-> output, error |-> error]

\* formattedResult of handleMCPExecute for the result of the tools/call
FormatResult(v) ==
    LET text == IF v.t \in {"obj", "arr"}
                THEN IF Truthy(Get(v, KContent)) THEN Get(v, KContent)
                     ELSE Str(Stringify(v))
                ELSE Str(ToStr(v))
    IN IpcResult(Undefined, Undefined,
                 Arr(<<Obj(<< <<KText, text>>, <<KType, Str(KText)>> >>)>>), NoError)

\* fetchMCPCapabilities / executeMCPServer of the renderer: a result with an
\* error is thrown, a result without one is returned ({tools, prompts} of a
\* fetch, the whole result of an execute).
UiOutcome(kind, result) ==
    IF Truthy(result.error) THEN [st |-> "rejected", v |-> result.error]
    ELSE [st |-> "resolved",
          v |-> IF kind = "fetch"
                THEN IpcResult(result.tools, result.prompts, Undefined, Undefined)
                ELSE result]

\* A faulty catch block: the process of the connection is killed.
KillAfterFailure(ps, p) == Kill(ps, p, [q \in 1..Len(ps) |-> TRUE])

\* What the catch blocks of the handlers do to the child processes when a
\* request has failed: nothing.
AfterFailure(ps, p) == ps

\* A faulty handler: the connection is dropped from the registry at the end.
DisconnectAfter(m, k) == LET Keep(e) == e[1] # k IN SelectSeq(m, Keep)

\* What a handler does to activeClients when it returns: nothing ("We don't
\* disconnect because we want to reuse the connection later").
AfterCompletion(m, k) == m

Handler(kind, pc, req, tools, prompts, sent, result) ==
    [kind |-> kind, pc |-> pc, req |-> req, tools |-> tools, prompts |-> prompts,
     sent |-> sent, result |-> result, ui |-> Pending]

NoResult == IpcResult(Undefined, Undefined, Undefined, NoError)
Done(h, result) == [h EXCEPT !.pc = "done", !.req = 0, !.result = result,
                             !.ui = UiOutcome(h.kind, result)]

\* Nothing is left to run in the current turn of the event loop: every call
\* of getOrCreateClient that has returned or failed has resumed its handler,
\* and every handler waits for a request that is still pending.
Quiet ==
    /\ \A c \in 1..Len(calls) : calls[c].pc # "spawn" => c \in DOMAIN handlers
    /\ \A c \in DOMAIN handlers :
          handlers[c].pc # "done" => reqs[handlers[c].req].out.st = "pending"

Idle == \A c \in 1..Len(calls) : c \in DOMAIN handlers /\ handlers[c].pc = "done"

\* The renderer invokes mcp:fetchCapabilities or mcp:execute for the server:
\* the handler calls getOrCreateClient.  (Which of the two handlers it is
\* shows when the call comes back; the renderer awaits one invocation
\* before it makes the next.)
Invoke(k, cmd) ==
    /\ Idle
    /\ Len(reqs) < MaxSessionReq
    /\ GetOrCreateClient(k, cmd)

SessionSpawnEvent(c, ev) == Quiet /\ SpawnEvent(c, ev)

SessionSpawnTimer(c) == Quiet /\ SpawnTimer(c)

\* getOrCreateClient has come back to the handler that called it.  A failure
\* ends the handler with an error result.  Otherwise the handler sends its
\* first request with client.request, on the connected client of the
\* connection: tools/list for a fetch, tools/call for an execute.
HandlerConnected(c, kind) ==
    /\ c \in 1..Len(calls)
    /\ c \notin DOMAIN handlers
    /\ calls[c].pc # "spawn"
    /\ kind \in {"fetch", "execute"}
    /\ calls[c].pc = "returned" =>
          Len(reqs) + (IF kind = "fetch" THEN 2 ELSE 1) <= MaxSessionReq
    /\ IF calls[c].pc = "failed"
       THEN /\ handlers' = (c :> Done(Handler(kind, "done", 0, Arr(<<>>), Arr(<<>>), <<>>, NoResult),
                                      IpcResult(Arr(<<>>), Arr(<<>>), JNull,
                                                Str(IF kind = "fetch" THEN <<calls[c].err>>
                                                    ELSE <<"Failed to connect to MCP server: ",
                                                           calls[c].err>>)))) @@ handlers
            /\ UNCHANGED <<responseHandlers, lastRequestId, stdin, reqs, settleLog>>
       ELSE /\ SendObj(0, IF kind = "fetch" THEN "tools/list" ELSE "tools/call")
            /\ LET method == IF kind = "fetch" THEN "tools/list" ELSE "tools/call"
                   pc == IF kind = "fetch" THEN "tools" ELSE "call"
               IN handlers' = (c :> Handler(kind, pc, Len(reqs) + 1, Arr(<<>>), Arr(<<>>),
                                            <<[method |-> method, req |-> Len(reqs) + 1]>>,
                                            NoResult)) @@ handlers
    /\ UNCHANGED <<killed, svars, rvars, cvars, quit, hvars>>

\* The request a handler awaits has settled.
\*   tools/list   its list is taken, or [] when the request failed; then
\*                prompts/list is sent
\*   prompts/list likewise; then {tools, prompts, error: null} is returned
\*   tools/call   the formatted result is returned, or an error result when
\*                the request failed
HandlerResume(c) ==
    /\ c \in DOMAIN handlers
    /\ handlers[c].pc # "done"
    /\ reqs[handlers[c].req].out.st # "pending"
    /\ LET h == handlers[c]
           out == reqs[h.req].out
           p == calls[c].conn.pid
       IN CASE h.pc = "tools" ->
                 /\ SendObj(0, "prompts/list")
                 /\ handlers' = [handlers EXCEPT ![c] =
                        [h EXCEPT !.pc = "prompts", !.req = Len(reqs) + 1,
                                  !.tools = IF out.st = "resolved"
                                            THEN ExtractList(out.v, KTools) ELSE Arr(<<>>),
                                  !.sent = Append(@, [method |-> "prompts/list",
                                                      req |-> Len(reqs) + 1])]]
                 /\ procs' = procs
                 /\ activeClients' = activeClients
            [] h.pc = "prompts" ->
                 /\ handlers' = [handlers EXCEPT ![c] =
                        Done(h, IpcResult(h.tools,
                                          IF out.st = "resolved"
                                          THEN ExtractList(out.v, KPrompts) ELSE Arr(<<>>),
                                          Undefined, NoError))]
                 /\ procs' = procs
                 /\ activeClients' = AfterCompletion(activeClients, calls[c].key)
                 /\ UNCHANGED <<responseHandlers, lastRequestId, stdin, reqs, settleLog>>
            [] h.pc = "call" ->
                 /\ handlers' = [handlers EXCEPT ![c] =
                        Done(h, IF out.st = "resolved" THEN FormatResult(out.v)
                                ELSE IpcResult(Undefined, Undefined, JNull,
                                               Str(<<"Tool execution error: ">> \o out.v.s)))]
                 /\ procs' = IF out.st = "resolved" THEN procs ELSE AfterFailure(procs, p)
                 /\ activeClients' = AfterCompletion(activeClients, calls[c].key)
                 /\ UNCHANGED <<responseHandlers, lastRequestId, stdin, reqs, settleLog>>
    /\ UNCHANGED <<killed, svars, activeProcesses, calls, cleanups,
                   cleanupThrew, killAttempts, returned, cvars, quit, hvars>>

\* A line of the server's stdout reaches the transport of the connection.
SessionOutput(d) ==
    /\ Quiet
    /\ d \in SessionChunks
    /\ \E i \in 1..Len(activeClients) : procs[activeClients[i][2].pid].state = "running"
    /\ SettleResponses(SessionFramed[d])
    /\ UNCHANGED <<svars, rvars, cvars, mvars>>

SessionTimeout(r) == Quiet /\ Timeout(r)

\* The write of a request fails.  (The callback of a write runs as soon as
\* the write has ended, before the server can have answered the request and
\* long before its timer: it finds the request pending.)
SessionWriteError(r) ==
    /\ Quiet
    /\ r \in 1..Len(reqs)
    /\ IsPending(r)
    /\ WriteError(r)

\* ------------------------------------------------- main process: shutdown

\* serverProcesses of the main process, as <<key, process>> entries: only
\* spawnMCPServer writes this Map, and nothing calls spawnMCPServer.
ServerProcesses == <<>>

\* cleanupServers(): kill() on every process of serverProcesses not yet
\* killed, then serverProcesses.clear()
CleanupServers(ps) ==
    KillAll(ps, Pids(ServerProcesses), 1, [p \in 1..Len(ps) |-> TRUE])

\* The shutdown hooks of the main process: 'window-all-closed' runs
\* cleanupServers() and then app.quit(); 'will-quit' awaits cleanupServers()
\* and calls app.exit().  No handler or timer of the main process runs
\* afterwards.
Shutdown ==
    /\ ~quit
    /\ quit' = TRUE
    /\ procs' = CleanupServers(CleanupServers(procs))
    /\ UNCHANGED <<activeClients, activeProcesses, calls, cleanups, cleanupThrew,
                   killAttempts, returned, tvars, svars, cvars, handlers, hvars>>

RInit ==
    /\ procs = <<>>
    /\ activeClients = <<>>
    /\ activeProcesses = <<>>
    /\ calls = <<>>
    /\ cleanups = 0
    /\ cleanupThrew = FALSE
    /\ killAttempts = {}
    /\ returned = [k \in Keys |-> 0]

\* No function call is in progress.
NoArg == [fn |-> "none"]
NoRet == [t |-> "none"]
FIdle ==
    /\ arg = NoArg
    /\ ret = NoRet

CInit ==
    /\ isConnected = FALSE
    /\ clientTransport = "null"
    /\ exited = FALSE
    /\ quit = FALSE
    /\ handlers = <<>>
    /\ stderrSeen = FALSE
    /\ skipped = FALSE

\* No chat is open in the renderer.
AIdle ==
    /\ messages = <<>>
    /\ approvals = <<>>

XInit == CInit /\ FIdle /\ AIdle

TInit ==
    /\ responseHandlers = <<>>
    /\ lastRequestId = 0
    /\ stdin = <<>>
    /\ reqs = <<>>
    /\ killed = FALSE
    /\ settleLog = <<>>

SIdle ==
    /\ stream = 0
    /\ fed = 0
    /\ feeds = 0
    /\ emitted = <<>>

Init == TInit /\ SIdle /\ RInit /\ XInit

Next ==
    \/ \E cid \in {0} \cup CallerIds : SendRequest(cid)
    \/ \E r \in 1..MaxReq : WriteError(r)
    \/ \E r \in 1..MaxReq : Timeout(r)
    \/ \E c \in ChunkSet : Output(c)
    \/ Close
    \/ ChildExit

Spec == Init /\ [][Next]_vars

\* A client and its transport: connected, used, disconnected, used again.
NextClient ==
    \/ Connect
    \/ Disconnect
    \/ \E cid \in {0} \cup CallerIds : ClientRequest(cid)
    \/ CallTool
    \/ \E r \in 1..MaxReq : Timeout(r)
    \/ \E c \in ChunkSet : ClientOutput(c)
    \/ StderrData
    \/ ChildExit

SpecClient == Init /\ [][NextClient]_vars

\* The transport while one stream arrives, before any timer or write error.
InitStream ==
    /\ TInit
    /\ RInit
    /\ XInit
    /\ stream \in StreamIds
    /\ fed = 0
    /\ feeds = 0
    /\ emitted = <<>>

NextStream ==
    \/ \E cid \in {0} \cup CallerIds : SendRequest(cid)
    \/ FeedChunk

SpecStream == InitStream /\ [][NextStream]_vars


\* The registry: calls of getOrCreateClient and cleanupClients, the grace
\* period of each spawn, the events of the spawned children.
InitRegistry == TInit /\ SIdle /\ RInit /\ XInit

NextRegistry ==
    \/ \E sc \in ServerCalls : GetOrCreateClient(sc[1], sc[2])
    \/ \E c \in 1..MaxCalls, ev \in {"error", "exit0", "exitN", "stderr"} : SpawnEvent(c, ev)
    \/ \E c \in 1..MaxCalls : SpawnTimer(c)
    \/ CleanupStep
    \/ Shutdown

SpecRegistry == InitRegistry /\ [][NextRegistry]_vars

\* The registry with a transport or a client that can fail to be set up.
NextConnectFailure ==
    \/ \E sc \in ServerCalls : GetOrCreateClient(sc[1], sc[2])
    \/ \E c \in 1..MaxCalls, ev \in {"error", "exit0", "exitN", "stderr"} : SpawnEvent(c, ev)
    \/ \E c \in 1..MaxCalls : SpawnTimer(c)
    \/ \E c \in 1..MaxCalls, stage \in {"transport", "connect"} : SpawnTimerFailing(c, stage)
    \/ CleanupStep
    \/ Shutdown

SpecConnectFailure == InitRegistry /\ [][NextConnectFailure]_vars

\* One server used through the IPC handlers of the main process, one
\* invocation after the other.
SessionKey == "s1"
SessionCommand == "node"

NextSession ==
    \/ Invoke(SessionKey, SessionCommand)
    \/ \E c \in 1..MaxCalls, ev \in {"exit0", "exitN"} : SessionSpawnEvent(c, ev)
    \/ \E c \in 1..MaxCalls : SessionSpawnTimer(c)
    \/ \E c \in 1..MaxCalls, kind \in {"fetch", "execute"} : HandlerConnected(c, kind)
    \/ \E c \in 1..MaxCalls : HandlerResume(c)
    \/ \E d \in SessionChunks : SessionOutput(d)
    \/ \E r \in 1..MaxSessionReq : SessionTimeout(r)
    \/ \E r \in 1..MaxSessionReq : SessionWriteError(r)

SpecSession == InitRegistry /\ [][NextSession]_vars

\* ------------------------------------------------- properties: transport


\* C1: a response whose id is the id a pending request is registered under
\* settles that request, and no other, with the response's own result or
\* error, at the moment it arrives: the futures settle in the order of arrival
\* of the responses, whatever the order the requests were sent in.
C1_Correlation ==
    [][\A c \in ChunkSet :
          (Len(c.ds) = 1 /\ c.ds[1].id \in DOMAIN responseHandlers /\ Output(c)) =>
              LET d == c.ds[1]
                  r == responseHandlers[d.id]
              IN /\ IsPending(r)
                 /\ reqs' = [reqs EXCEPT ![r].out = Expected(d)]
                 /\ settleLog' = Append(settleLog, r)
                 /\ responseHandlers' = MapDelete(responseHandlers, d.id)]_vars

\* requests 1 and 2, answered in the order 2, 1, each with its own payload
C1_Witness ==
    /\ Len(reqs) = 2
    /\ reqs[1].id = 1 /\ reqs[2].id = 2
    /\ settleLog = <<2, 1>>
    /\ reqs[1].out = Expected(Desc(1, "result"))
    /\ reqs[2].out = Expected(Desc(2, "error"))

\* C2: every future returned by sendRequest settles: once the 30 s timer of a
\* request has fired, its future is no longer pending.
C2_SettledAfterTimeout ==
    \A r \in Reqs : reqs[r].timer = "fired" => ~IsPending(r)

\* C3: the timeout of one request never removes or alters the entry another
\* request is registered under.
C3_TimeoutIsolation ==
    [][\A r \in Reqs :
          Timeout(r) =>
              \A id \in DOMAIN responseHandlers :
                  responseHandlers[id] # r =>
                      /\ id \in DOMAIN responseHandlers'
                      /\ responseHandlers'[id] = responseHandlers[id]]_vars

\* C4: registering a request never replaces the handler of a request that is
\* still pending: no step gives the id of a pending request to another one.
C4_NeverReplaces ==
    [][\A id \in DOMAIN responseHandlers :
          (IsPending(responseHandlers[id]) /\ id \in DOMAIN responseHandlers') =>
              responseHandlers'[id] = responseHandlers[id]]_vars

\* ---------------------------------------------------- properties: framing

\* C5: once the whole stream has been delivered, in whatever chunks, the
\* framer has emitted what it emits for the unsplit stream.
C5_SplitIndependent ==
    (stream # 0 /\ fed = StreamLen(stream)) =>
        emitted = FramedPiece[stream][0][StreamLen(stream)]

\* C6: when a first chunk held only the beginning of the response to request
\* id 1 and the next chunk brings the rest, the request is settled with it.
C6_PartialRetained ==
    [][(/\ stream # 0
        /\ Streams[stream] = StreamOne
        /\ feeds = 1
        /\ fed' = StreamLen(stream)
        /\ 1 \in DOMAIN responseHandlers) =>
           reqs'[responseHandlers[1]].out = Expected(Desc(1, "result"))]_vars

\* JSON.parse of each response a child may write, evaluated once
ParsedDesc ==
    [d \in {Desc(id, k) : id \in ChildIds, k \in Kinds} |-> JSONParse(Render(d)).val]
Objects(c) == [i \in 1..Len(c.ds) |-> ParsedDesc[c.ds[i]]]
FirstFor(c, id) ==
    c.ds[CHOOSE i \in 1..Len(c.ds) :
            c.ds[i].id = id /\ \A j \in 1..(i - 1) : c.ds[j].id # id]

\* '{' minus '}' among the first n characters of text, string contents included
RECURSIVE Depth(_, _)
Depth(text, n) ==
    IF n = 0 THEN 0
    ELSE Depth(text, n - 1)
           + (IF text[n] = "{" THEN 1 ELSE IF text[n] = "}" THEN -1 ELSE 0)
BalancesAtEnd(text) ==
    /\ Depth(text, Len(text)) = 0
    /\ \A n \in 1..(Len(text) - 1) : Depth(text, n) > 0

\* the chunks of several objects; those whose objects each have their raw
\* brace counts balance at their closing brace and nowhere before
MultiChunks == {c \in ChunkSet : Len(c.ds) >= 2}
CleanChunks == {c \in MultiChunks : \A i \in 1..Len(c.ds) : BalancesAtEnd(Render(c.ds[i]))}

\* _handleProcessOutput of chunk c in the current state emits every object
\* of c in order and settles, with the first response of its id, every
\* pending request whose id is the id of one of them
AllSettled(c) ==
    LET st == SettleLoop(Framed[c], 1, TState)
    IN /\ Framed[c] = Objects(c)
       /\ \A id \in DOMAIN responseHandlers :
             (\E i \in 1..Len(c.ds) : c.ds[i].id = id) =>
                 /\ id \notin DOMAIN st.h
                 /\ st.reqs[responseHandlers[id]].out = Expected(FirstFor(c, id))

\* C7 as stated: a chunk holding several complete responses has every one of
\* them emitted in stream order, and every pending request whose id is the id
\* of one of them is settled by it, in whatever state the chunk arrives.
C7_AllEmitted == \A c \in MultiChunks : AllSettled(c)

\* C7, amended: the same, for the chunks in which the raw counts of '{' and
\* '}' of each object, those inside its strings included, first become equal
\* at the object's closing brace.
C7_AllEmittedBalanced == \A c \in CleanChunks : AllSettled(c)

\* two requests settled by the two responses of one chunk, the first of
\* which carries balanced braces in its string
C7_Witness ==
    /\ Len(reqs) = 2
    /\ settleLog = <<1, 2>>
    /\ reqs[1].out = Expected(Desc(1, "nested"))
    /\ reqs[2].out = Expected(Desc(2, "result"))
    /\ reqs[2].timer = "armed" /\ reqs[2].write = "inflight"

\* --------------------------------------------------- properties: registry

Calls == 1..Len(calls)

\* C8: a call of getOrCreateClient made after a call for the same identity
\* has returned, with no cleanupClients completed in between, returns at once
\* the very connection that call returned and spawns nothing, whatever its
\* command.
C8_Idempotent ==
    [][\A sc \in ServerCalls :
          (returned[sc[1]] # 0 /\ GetOrCreateClient(sc[1], sc[2])) =>
              /\ calls'[Len(calls')].pc = "returned"
              /\ calls'[Len(calls')].conn = calls[returned[sc[1]]].conn
              /\ calls'[Len(calls')].conn.id = returned[sc[1]]
              /\ procs' = procs]_vars

\* two completed calls for one identity with different commands, one
\* connection, one process
C8_Witness ==
    /\ Len(calls) = 2
    /\ calls[1].key = calls[2].key /\ calls[1].cmd # calls[2].cmd
    /\ calls[1].pc = "returned" /\ calls[2].pc = "returned"
    /\ calls[1].conn = calls[2].conn /\ calls[1].conn # NoConnection
    /\ ~calls[2].spawned
    /\ Len(procs) = 1
    /\ cleanups = 0

\* C9: while no cleanupClients has run, of two calls for one identity at most
\* one has spawned a process, unless a spawn failed, and the calls that have
\* returned all hold the same connection.
C9_OneConnection ==
    cleanups = 0 =>
        \A c, d \in Calls :
            (c # d /\ calls[c].key = calls[d].key) =>
                /\ (calls[c].spawned /\ calls[d].spawned) =>
                       (calls[c].pc = "failed" \/ calls[d].pc = "failed")
                /\ (calls[c].pc = "returned" /\ calls[d].pc = "returned") =>
                       calls[c].conn = calls[d].conn

\* C10: a call of cleanupClients never ends in an exception; when it ends
\* both maps are empty, and every process that was stored, under a connection
\* or on its own, and not yet killed has had kill() called on it.
C10_Cleanup ==
    [][/\ ~cleanupThrew'
       /\ (CleanupStep /\ cleanups' = cleanups + 1) =>
              /\ activeClients' = <<>>
              /\ activeProcesses' = <<>>
              /\ \A i \in 1..Len(activeClients) :
                     LET p == activeClients[i][2].pid
                     IN procs'[p].killed \/ p \in killAttempts'
              /\ \A i \in 1..Len(activeProcesses) :
                     LET p == activeProcesses[i][2]
                     IN procs'[p].killed \/ p \in killAttempts']_vars

\* a first cleanupClients met a kill() that failed on a stored process, a
\* second one ran on the empty registry right after it
C10_Witness ==
    /\ cleanups = 2
   
    /\ ~cleanupThrew
    /\ activeClients = <<>> /\ activeProcesses = <<>>
    /\ \E p \in 1..Len(procs) : procs[p].state = "running" /\ ~procs[p].killed
    /\ Len(calls) = 1 /\ calls[1].pc = "returned"

\* ------------------------------------------------ properties: main process

\* C11: once the shutdown hook of the main process has completed, no child
\* process spawned by getOrCreateClient is still running.
C11_NoChildAfterShutdown ==
    quit => \A p \in 1..Len(procs) : procs[p].state # "running"

\* C12: a write error reported for a pending request removes that request's
\* entry and rejects its future with the write error at once, and changes
\* neither the entry nor the future of any other request.
C12_WriteFailure ==
    [][\A r \in Reqs :
          (IsPending(r) /\ WriteError(r)) =>
              /\ reqs'[r].out = Rejected(MsgWrite)
              /\ reqs[r].id \notin DOMAIN responseHandlers'
              /\ \A q \in Reqs \ {r} : reqs'[q] = reqs[q]
              /\ \A id \in DOMAIN responseHandlers :
                    responseHandlers[id] # r =>
                        /\ id \in DOMAIN responseHandlers'
                        /\ responseHandlers'[id] = responseHandlers[id]]_vars

\* -------------------------------------------------- properties: Client

NotConnectedRequest ==
    [id |-> 0, out |-> Rejected(MsgNotConnected), write |-> "none", timer |-> "none"]

\* C14: request and callTool on a client that was never connected, or was
\* disconnected, fail with 'Client not connected', register no pending
\* request and write nothing; on a connected client they do what the
\* transport's sendRequest does.  disconnect leaves the client disconnected
\* and, when it has a transport, that transport closed.
C14_ClientGuard ==
    [][/\ \A cid \in {0} \cup CallerIds :
             (ClientRequest(cid) \/ (cid = 0 /\ CallTool)) =>
                 IF ~isConnected
                 THEN /\ reqs' = Append(reqs, NotConnectedRequest)
                      /\ responseHandlers' = responseHandlers
                      /\ lastRequestId' = lastRequestId
                 ELSE Send(cid)
       /\ Disconnect =>
             /\ ~isConnected'
             /\ clientTransport = "set" => killed' = (killed \/ ~exited)]_vars

\* a request delegated to the transport while connected, then a disconnect
\* that killed the live child, then a request refused by the client
C14_Witness ==
    /\ Len(reqs) = 2
    /\ reqs[1].write = "inflight"
    /\ reqs[2] = NotConnectedRequest
    /\ ~isConnected /\ clientTransport = "set"
    /\ killed

\* C15: once close() has been called or the child has exited, every later
\* sendRequest is rejected at once, registers no pending request and writes
\* nothing.
C15_ClosedAbsorbing ==
    [][\A cid \in {0} \cup CallerIds :
          ((killed \/ exited) /\ SendRequest(cid)) =>
              /\ responseHandlers' = responseHandlers
              /\ reqs'[Len(reqs')].out.st = "rejected"
              /\ reqs'[Len(reqs')].write = "none"]_vars

\* ------------------------------------------------ properties: startup

\* C16: the spawn promise is resolved with a process only if that process has
\* not exited during the grace period.
C16_ResolvesRunning ==
    [][\A c \in 1..Len(calls) :
          (SpawnTimer(c) /\ calls'[c].pc = "returned") =>
              procs[calls[c].pid].state = "running"]_vars

StartupErrors == {ErrExitCode, ErrStartup}

\* C17: a fatal stderr line or an exit with a non-zero code while the call
\* waits for the grace period makes the call fail at once with a startup
\* error, and stores nothing in activeClients or activeProcesses; no failed
\* call ever owns a stored connection or process; and a call made while
\* neither map has an entry for its identity spawns a new child.
C17_FatalStartup ==
    [][/\ \A c \in 1..Len(calls) : \A ev \in {"stderr", "exitN"} :
             (SpawnEvent(c, ev) /\ calls[c].pc = "spawn") =>
                 /\ calls'[c].pc = "failed"
                 /\ calls'[c].err \in StartupErrors
                 /\ activeClients' = activeClients
                 /\ activeProcesses' = activeProcesses
       /\ \A c \in 1..Len(calls') : calls'[c].pc = "failed" =>
             /\ \A i \in 1..Len(activeClients') : activeClients'[i][2].id # c
             /\ \A i \in 1..Len(activeProcesses') : activeProcesses'[i][2] # calls'[c].pid
       /\ \A k \in Keys, cmd \in Commands :
             (GetOrCreateClient(k, cmd) /\ ~MHas(activeClients, k) /\ ~MHas(activeProcesses, k)) =>
                 /\ Len(procs') = Len(procs) + 1
                 /\ calls'[Len(calls')].pid = Len(procs')]_vars

\* the first call failed on a fatal stderr line or a non-zero exit, nothing is
\* stored for its identity, and a second call for the identity has spawned
\* another child
C17_Witness ==
    /\ Len(calls) = 2
    /\ calls[1].pc = "failed" /\ calls[1].err \in StartupErrors
    /\ calls[1].timer = "fired"
    /\ calls[2].key = calls[1].key
    /\ calls[2].spawned /\ calls[2].pid = 2 /\ calls[2].pc = "spawn"
    /\ ~MHas(activeClients, calls[1].key) /\ ~MHas(activeProcesses, calls[1].key)

RegistryUnchanged ==
    /\ procs' = procs
    /\ killed' = killed
    /\ activeClients' = activeClients
    /\ activeProcesses' = activeProcesses

\* C13: a step in which a request of the connection is rejected (by its
\* timer, by an error response or by a write error), and the step in which
\* the handler that awaited it gives up, kill no child process and leave
\* activeClients and activeProcesses as they are; no child process is ever
\* killed while the handlers run; and a getOrCreateClient that finds the
\* identity in activeClients returns the stored connection at once, spawning
\* nothing.
C13_FailureNotFatal ==
    [][/\ (\E r \in 1..Len(reqs) :
              reqs[r].out.st = "pending" /\ reqs'[r].out.st = "rejected") => RegistryUnchanged
       /\ \A c \in DOMAIN handlers :
             (HandlerResume(c) /\ reqs[handlers[c].req].out.st = "rejected") => RegistryUnchanged
       /\ ~killed' /\ \A p \in 1..Len(procs') : ~procs'[p].killed
       /\ (Invoke(SessionKey, SessionCommand) /\ HasClient(SessionKey)) =>
             /\ calls'[Len(calls')].pc = "returned"
             /\ calls'[Len(calls')].conn = MGet(activeClients, SessionKey)
             /\ RegistryUnchanged]_vars

\* an execute whose tools/call was rejected has failed, and a later call of
\* getOrCreateClient has returned the very connection it used, its child
\* still running
C13_Witness ==
    \E c1 \in DOMAIN handlers, c2 \in 1..Len(calls) :
        /\ c1 < c2
        /\ handlers[c1].pc = "done" /\ Len(handlers[c1].sent) = 1
        /\ reqs[handlers[c1].sent[1].req].out.st = "rejected"
        /\ handlers[c1].ui.st = "rejected"
        /\ calls[c2].pc = "returned" /\ calls[c2].conn = calls[c1].conn
        /\ procs[calls[c2].conn.pid].state = "running"
        /\ MHas(activeClients, SessionKey)
        /\ MGet(activeClients, SessionKey) = calls[c1].conn

\* C19: a handler that has ended after getOrCreateClient failed for it, or
\* after a request it sent was rejected, has failed for the caller in the
\* renderer.
C19_FailuresPropagate ==
    \A c \in DOMAIN handlers :
        (/\ handlers[c].pc = "done"
         /\ \/ calls[c].pc = "failed"
            \/ \E i \in 1..Len(handlers[c].sent) :
                  reqs[handlers[c].sent[i].req].out.st = "rejected")
        => handlers[c].ui.st = "rejected"

FirstOnConnection(c) == Len(handlers[c].sent) > 0 /\ handlers[c].sent[1].req = 1
AfterFetch(c) == Len(handlers[c].sent) > 0 /\ handlers[c].sent[1].req = 3
WrappedContent == Arr(<<Obj(<< <<KText, HiContent>>, <<KType, Str(KText)>> >>)>>)

\* C20 (as stated): after a fetch on a fresh connection, the tools/call of an
\* execute carries id 2, and the execute returns the content payload itself.
C20_EndToEnd ==
    \A c \in DOMAIN handlers :
        (handlers[c].kind = "execute" /\ AfterFetch(c)) =>
            /\ reqs[3].id = 2
            /\ (handlers[c].pc = "done" /\ reqs[3].out = Resolved(SessionResult("content"))) =>
                  handlers[c].ui = Resolved(HiContent)

\* C20: a fetch that sends the first request of a connection, and whose
\* tools/list is answered with {"tools":[{"name":"echo"}]}, returns exactly
\* the one tool named echo.  The execute that follows it sends one request,
\* a tools/call, under id 3 (ids 1 and 2 went to tools/list and
\* prompts/list, and no request is registered under id 2 any more); when
\* that request is answered with {"content":[{"type":"text","text":"hi"}]}
\* the execute returns {output: [{text: <the content payload>, type:
\* 'text'}], error: null}.
C20_EndToEndWrapped ==
    \A c \in DOMAIN handlers :
        /\ (/\ handlers[c].kind = "fetch" /\ FirstOnConnection(c)
            /\ handlers[c].pc = "done"
            /\ reqs[1].out = Resolved(SessionResult("tools"))) =>
               /\ handlers[c].ui.st = "resolved"
               /\ handlers[c].ui.v.tools = EchoTools
               /\ reqs[1].id = 1 /\ reqs[2].id = 2
               /\ handlers[c].sent = <<[method |-> "tools/list", req |-> 1],
                                       [method |-> "prompts/list", req |-> 2]>>
        /\ (handlers[c].kind = "execute" /\ AfterFetch(c)) =>
               /\ handlers[c].sent = <<[method |-> "tools/call", req |-> 3]>>
               /\ reqs[3].id = 3
               /\ IsPending(3) => DOMAIN responseHandlers = {3}
               /\ (handlers[c].pc = "done" /\ reqs[3].out = Resolved(SessionResult("content"))) =>
                     /\ handlers[c].ui.st = "resolved"
                     /\ handlers[c].ui.v.output = WrappedContent
                     /\ handlers[c].ui.v.error = JNull

\* the fetch has returned the tool echo and the execute after it has returned
\* the wrapped content
C20_Witness ==
    /\ DOMAIN handlers = {1, 2}
    /\ handlers[1].kind = "fetch" /\ handlers[1].pc = "done"
    /\ handlers[1].ui.st = "resolved" /\ handlers[1].ui.v.tools = EchoTools
    /\ handlers[2].kind = "execute" /\ handlers[2].pc = "done"
    /\ reqs[3].out = Resolved(SessionResult("content"))
    /\ handlers[2].ui.st = "resolved" /\ handlers[2].ui.v.output = WrappedContent

\* C21: every handler that got a connection from getOrCreateClient, while it
\* runs and after it has returned (with a result or with an error), finds
\* that connection stored in activeClients under its identity, with a
\* process nobody has killed; and all the handlers of the identity that got
\* a connection got the same one, over the same child process.
C21_ConnectionKept ==
    \A c \in DOMAIN handlers :
        calls[c].pc = "returned" =>
            /\ MHas(activeClients, calls[c].key)
            /\ MGet(activeClients, calls[c].key) = calls[c].conn
            /\ MHas(activeProcesses, calls[c].key)
            /\ MGet(activeProcesses, calls[c].key) = calls[c].conn.pid
            /\ ~procs[calls[c].conn.pid].killed
            /\ \A d \in DOMAIN handlers :
                  (calls[d].pc = "returned" /\ calls[d].key = calls[c].key) =>
                      calls[d].conn = calls[c].conn

\* a fetch has returned its lists and an execute after it has failed on its
\* request: both used the connection that is still stored
C21_Witness ==
    /\ DOMAIN handlers = {1, 2}
    /\ handlers[1].kind = "fetch" /\ handlers[1].pc = "done"
    /\ handlers[1].ui.st = "resolved"
    /\ handlers[2].kind = "execute" /\ handlers[2].pc = "done"
    /\ handlers[2].ui.st = "rejected" /\ Len(handlers[2].sent) = 1
    /\ calls[2].conn = calls[1].conn
    /\ MGet(activeClients, SessionKey) = calls[1].conn
    /\ procs[calls[1].conn.pid].state = "running"

\* The numeric ids carried by the objects of a parsed chunk.
ResponseIds(responses) ==
    {Get(responses[i], KId).n :
        i \in {j \in 1..Len(responses) : Get(responses[j], KId).t = "num"}}

\* What _handleProcessOutput leaves alone on chunk c: a handler entry whose
\* id no object of the chunk carries is kept, and a request record changes
\* only if an entry under one of the chunk's ids pointed at it.
DiscardsUnmatched(c) ==
    LET st == SettleLoop(Framed[c], 1, TState)
        ids == ResponseIds(Framed[c])
    IN /\ \A k \in DOMAIN responseHandlers \ ids :
             k \in DOMAIN st.h /\ st.h[k] = responseHandlers[k]
       /\ DOMAIN st.h \subseteq DOMAIN responseHandlers
       /\ \A r \in 1..Len(reqs) :
             st.reqs[r] # reqs[r] =>
                \E k \in ids \cap DOMAIN responseHandlers :
                    responseHandlers[k] = r
       /\ (ids \cap DOMAIN responseHandlers = {}) => st = TState

\* C22: an incoming object without an id, with a falsy id, or with an id no
\* pending request is registered under settles nothing and removes nothing:
\* in every reachable state and for every chunk, _handleProcessOutput keeps
\* each handler entry and each request the chunk's ids do not name, and a
\* chunk none of whose ids is registered leaves the transport as it was (a
\* null response ends the loop in the catch block); and a stderr event of the
\* child changes neither the handler map nor any request.
C22_UnmatchedDiscarded ==
    /\ [](\A c \in ChunkSet : DiscardsUnmatched(c))
    /\ [][stderrSeen' # stderrSeen =>
            UNCHANGED <<responseHandlers, reqs, settleLog, lastRequestId, stdin>>]_vars

C22_Witness ==
    /\ stderrSeen
    /\ skipped
    /\ \E r \in 1..Len(reqs) :
          /\ IsPending(r)
          /\ \E k \in DOMAIN responseHandlers : responseHandlers[k] = r

\* C23: a response carrying the id of a request that has already settled
\* (timed out or answered) changes the outcome of no request: delivering it
\* leaves every request record as it was.
C23_LateResponseDiscarded ==
    \A c \in ChunkSet :
        (/\ Len(c.ds) = 1
         /\ \E r \in Reqs : reqs[r].id = c.ds[1].id /\ ~IsPending(r)
                              /\ reqs[r].timer = "fired") =>
            SettleLoop(Framed[c], 1, TState).reqs = reqs

\* The requests that reached the write of sendRequest, in the order of the
\* calls.
Written == SelectSeq([r \in 1..Len(reqs) |-> r], LAMBDA r : reqs[r].write # "none")

\* A line of stdin: JSON text without a newline in it, then one newline, the
\* text being an object with jsonrpc "2.0" and the given id.
IsRequestLine(line, id) ==
    /\ Len(line) >= 1
    /\ line[Len(line)] = "\n"
    /\ \A i \in 1..(Len(line) - 1) : line[i] # "\n"
    /\ LET p == JSONParse(SubSeq(line, 1, Len(line) - 1))
       IN /\ p.ok
          /\ Get(p.val, KJsonrpc) = Str(<<"2", ".", "0">>)
          /\ Get(p.val, KId) = Num(id)

\* C24: stdin holds one line per request that sendRequest registered, in the
\* order of the sendRequest calls: the i-th line is one JSON object followed
\* by a newline and carries jsonrpc "2.0" and the id of the i-th such
\* request; and stdin only grows at its end, so no line is ever written
\* before an earlier one.
C24_WrittenInOrder ==
    /\ [](/\ Len(stdin) = Len(Written)
          /\ \A i \in 1..Len(stdin) : IsRequestLine(stdin[i], reqs[Written[i]].id))
    /\ [][/\ Len(stdin') >= Len(stdin)
          /\ SubSeq(stdin', 1, Len(stdin)) = stdin]_vars

C24_Witness ==
    /\ Len(stdin) = 2
    /\ Len(reqs) = 2
    /\ reqs[1].id = 1 /\ reqs[2].id = 2
    /\ reqs[2].out.st = "resolved" /\ IsPending(1)
    /\ stdin[1] # stdin[2]

\* ------------------------------------------------------- resolveMCPPath

\* A path is [abs, segs]: whether it starts at the root, and its segments.
\* A script path holds a separator when it is absolute or has more than one
\* segment ("./s.js" is <<".", "s.js">>).
AbsPath(segs) == [abs |-> TRUE, segs |-> segs]
RelPath(segs) == [abs |-> FALSE, segs |-> segs]

\* The layout of the machine: process.cwd(), the directory of the module,
\* os.homedir(), app.getAppPath(), app.getPath('userData').
Cwd == <<"proj">>
ModuleDir == <<"proj", "electron">>
HomeDir == <<"home">>
AppPath == <<"opt", "res", "app">>
UserDataPath == <<"home", "data">>

\* path.normalize of the segments of an absolute path
RECURSIVE Normalize(_, _)
Normalize(segs, acc) ==
    IF segs = <<>> THEN acc
    ELSE CASE Head(segs) = "." -> Normalize(Tail(segs), acc)
           [] Head(segs) = ".." ->
                Normalize(Tail(segs), IF acc = <<>> THEN acc
                                      ELSE SubSeq(acc, 1, Len(acc) - 1))
           [] OTHER -> Normalize(Tail(segs), Append(acc, Head(segs)))

\* path.resolve(base, ...mid, p) for an absolute base
PathResolve(base, mid, p) ==
    IF p.abs THEN AbsPath(Normalize(p.segs, <<>>))
    ELSE AbsPath(Normalize(base \o mid \o p.segs, <<>>))

\* path.dirname of an absolute path
Dirname(segs) == SubSeq(segs, 1, Len(segs) - 1)

\* fs.existsSync / fs.statSync: a relative path is looked up from the
\* working directory.
StatKind(fs, p) ==
    LET q == PathResolve(Cwd, <<>>, p)
    IN CASE q \in fs.files -> "file"
         [] q \in fs.dirs -> "dir"
         [] OTHER -> "none"

Returns(p) == [t |-> "return", p |-> p]
Throws(e) == [t |-> "throw", e |-> e]

\* 'for (const checkPath of paths)': the first path that exists and is a
\* file is returned, otherwise the original path.
RECURSIVE FirstFile(_, _, _, _)
FirstFile(paths, i, fs, scriptPath) ==
    IF i > Len(paths) THEN Returns(scriptPath)
    ELSE IF StatKind(fs, paths[i]) = "file" THEN Returns(paths[i])
    ELSE FirstFile(paths, i + 1, fs, scriptPath)

\* devPaths
DevPaths(scriptPath) ==
    << PathResolve(Cwd, <<>>, scriptPath),
       PathResolve(Cwd, <<"..">>, scriptPath),
       PathResolve(ModuleDir, <<"..">>, scriptPath),
       PathResolve(HomeDir, <<>>, scriptPath) >>

\* potentialPaths
PotentialPaths(scriptPath) ==
    LET resourcesPath == Dirname(AppPath)
    IN << PathResolve(HomeDir, <<>>, scriptPath),
          PathResolve(UserDataPath, <<>>, scriptPath),
          PathResolve(Cwd, <<>>, scriptPath),
          PathResolve(resourcesPath, <<"mcp">>, scriptPath),
          PathResolve(resourcesPath, <<>>, scriptPath),
          PathResolve(AppPath, <<>>, scriptPath),
          PathResolve(resourcesPath, <<"extraResources">>, scriptPath),
          PathResolve(resourcesPath, <<"extraResources", "mcp">>, scriptPath),
          IF scriptPath.segs[1] = "." THEN PathResolve(Cwd, <<>>, scriptPath) ELSE scriptPath,
          IF scriptPath.segs[1] = ".." THEN PathResolve(Cwd, <<>>, scriptPath) ELSE scriptPath,
          PathResolve(<<>>, <<>>, scriptPath),
          scriptPath >>

\* The list the function walks for a relative path.
SearchPaths(scriptPath, isDev) ==
    IF isDev THEN DevPaths(scriptPath) ELSE PotentialPaths(scriptPath)

\* resolveMCPPath(scriptPath) for a non-empty string.  hasRequire tells
\* whether the identifier 'require' is bound where the module is evaluated:
\* the file is an ES module (import declarations, import.meta.url), in which
\* no 'require' exists unless the embedder provides one, and
\* require('os') is evaluated outside any try block.
ResolveMCPPath(scriptPath, fs, isDev, hasRequire) ==
    IF ~scriptPath.abs /\ Len(scriptPath.segs) = 1 THEN Returns(scriptPath)
    ELSE IF scriptPath.abs THEN Returns(scriptPath)
    ELSE IF ~hasRequire THEN Throws("ReferenceError")
    ELSE FirstFile(SearchPaths(scriptPath, isDev), 1, fs, scriptPath)

\* The script paths tried, and for each the places a file system may hold
\* something at.
ScriptPaths ==
    { RelPath(<<"server">>), RelPath(<<"mcp", "s.js">>), RelPath(<<".", "s.js">>),
      RelPath(<<"..", "s.js">>), AbsPath(<<"opt", "s.js">>) }
Places(scriptPath) ==
    {PathResolve(Cwd, <<>>, DevPaths(scriptPath)[i]) : i \in 1..4}
      \cup {PathResolve(Cwd, <<>>, PotentialPaths(scriptPath)[i]) : i \in 1..12}
MaxFiles == 2
FileSystems(scriptPath) ==
    { [files |-> f, dirs |-> d] :
        f \in {x \in SUBSET Places(scriptPath) : Cardinality(x) <= MaxFiles},
        d \in {x \in SUBSET Places(scriptPath) : Cardinality(x) <= 1} }
ResolveArgs ==
    { [fn |-> "resolveMCPPath", scriptPath |-> p, fs |-> f, isDev |-> dv, hasRequire |-> rq] :
        p \in ScriptPaths, f \in UNION {FileSystems(q) : q \in ScriptPaths},
        dv \in BOOLEAN, rq \in BOOLEAN }

\* resolveMCPPath(scriptPath) is called and comes back
CallResolveMCPPath ==
    /\ arg.fn = "resolveMCPPath"
    /\ ret = NoRet
    /\ ret' = ResolveMCPPath(arg.scriptPath, arg.fs, arg.isDev, arg.hasRequire)
    /\ UNCHANGED <<arg, tvars, svars, rvars, cvars, quit, handlers, stderrSeen, skipped, avars>>

InitResolve ==
    /\ TInit /\ SIdle /\ RInit /\ CInit /\ AIdle
    /\ arg \in {a \in ResolveArgs :
                   a.fs.files \cup a.fs.dirs \subseteq Places(a.scriptPath)
                   /\ a.fs.files \cap a.fs.dirs = {}}
    /\ ret = NoRet

NextResolve == CallResolveMCPPath

SpecResolve == InitResolve /\ [][NextResolve]_vars

\* C25: resolveMCPPath returns a bare name and an absolute path unchanged;
\* for a relative path with a separator it returns the candidate under the
\* current working directory when that is a regular file (the candidate
\* order starts there), and the argument unchanged when no candidate is a
\* regular file; it does not throw.
C25_PathResolution ==
    (arg.fn = "resolveMCPPath" /\ ret # NoRet) =>
        LET p == arg.scriptPath
            cwdCandidate == PathResolve(Cwd, <<>>, p)
        IN /\ ret.t = "return"
           /\ (p.abs \/ Len(p.segs) = 1) => ret.p = p
           /\ (~p.abs /\ Len(p.segs) > 1) =>
                 /\ cwdCandidate \in arg.fs.files => ret.p = cwdCandidate
                 /\ (\A i \in 1..Len(SearchPaths(p, arg.isDev)) :
                        StatKind(arg.fs, SearchPaths(p, arg.isDev)[i]) # "file")
                       => ret.p = p

\* ------------------------------------- spawnMCPProcess: what is spawned

\* process.execPath
ExecPath == "/opt/mai/electron"

\* A faulty choice: the host binary stands in for 'node' in every mode.
UseElectronAlways(command, isDev) == command = "node"

\* useElectronAsNode after 'if (command === 'node' && !isDev)'
UseElectronAsNode(command, isDev) == command = "node" /\ ~isDev

\* execCommand: the host binary when the branch was taken, unless the
\* logging of the branch threw (process.cwd() fails when the working
\* directory is gone), in which case the catch block goes back to 'node'.
ExecCommand(command, isDev, cwdThrows) ==
    IF UseElectronAsNode(command, isDev)
    THEN (IF cwdThrows THEN "node" ELSE ExecPath)
    ELSE command

\* What spawn() is called with: the command, env.ELECTRON_RUN_AS_NODE (set
\* after the spread of process.env, whatever the parent's value was) and the
\* shell option.
SpawnOptions(command, isDev, parentFlag, platform, cwdThrows) ==
    [t |-> "spawn",
     command |-> ExecCommand(command, isDev, cwdThrows),
     flag |-> IF UseElectronAsNode(command, isDev) THEN "1" ELSE "0",
     shell |-> (platform = "win32" \/ ~UseElectronAsNode(command, isDev))]

SpawnCommands == {"node", "npx", "python", "/usr/bin/node"}
Platforms == {"win32", "darwin", "linux"}
SpawnArgs ==
    { [fn |-> "spawnMCPProcess", command |-> c, isDev |-> dv, parentFlag |-> pf,
       platform |-> pl, cwdThrows |-> ct] :
        c \in SpawnCommands, dv \in BOOLEAN, pf \in {"unset", "0", "1"},
        pl \in Platforms, ct \in BOOLEAN }

\* spawnMCPProcess(command, args) up to its call of spawn()
CallSpawnMCPProcess ==
    /\ arg.fn = "spawnMCPProcess"
    /\ ret = NoRet
    /\ ret' = SpawnOptions(arg.command, arg.isDev, arg.parentFlag, arg.platform,
                           arg.cwdThrows)
    /\ UNCHANGED <<arg, tvars, svars, rvars, cvars, quit, handlers, stderrSeen, skipped, avars>>

InitSpawn ==
    /\ TInit /\ SIdle /\ RInit /\ CInit /\ AIdle
    /\ arg \in SpawnArgs
    /\ ret = NoRet

NextSpawn == CallSpawnMCPProcess

SpecSpawn == InitSpawn /\ [][NextSpawn]_vars

\* C26 (as stated): the supervisor always runs inside the Electron host
\* runtime, so whenever the command is 'node' the child is started from
\* process.execPath with ELECTRON_RUN_AS_NODE '1'; any other command is
\* executed as given without ELECTRON_RUN_AS_NODE '1'.
C26_HostAsInterpreter ==
    (arg.fn = "spawnMCPProcess" /\ ret # NoRet) =>
        IF arg.command = "node"
        THEN ret.command = ExecPath /\ ret.flag = "1"
        ELSE ret.command = arg.command /\ ret.flag # "1"

\* C26 (amended): the host binary stands in for 'node' only in the packaged
\* application: there 'node' is started from process.execPath with
\* ELECTRON_RUN_AS_NODE '1' (when reading the working directory for the log
\* fails, 'node' itself is started, still with '1'); in development mode,
\* and for every other command in either mode, the command is executed as
\* given with ELECTRON_RUN_AS_NODE '0', whatever the parent's value was.
C26_HostAsInterpreterPackaged ==
    (arg.fn = "spawnMCPProcess" /\ ret # NoRet) =>
        IF arg.command = "node" /\ ~arg.isDev
        THEN /\ ret.flag = "1"
             /\ ret.command = (IF arg.cwdThrows THEN "node" ELSE ExecPath)
        ELSE ret.command = arg.command /\ ret.flag = "0"

C26_Witness ==
    /\ arg.fn = "spawnMCPProcess"
    /\ arg.command = "node" /\ ~arg.isDev /\ ~arg.cwdThrows /\ arg.parentFlag = "0"
    /\ ret # NoRet
    /\ ret.command = ExecPath /\ ret.flag = "1" /\ ~ret.shell

\* The calls of getOrCreateClient that went through spawnMCPProcess.
SpawnCalls == {c \in 1..Len(calls) : calls[c].spawned}

SkipNothing(remaining) == Trim(remaining)

\* 'remaining = remaining.substring(1).trim()' of the inner catch block
SkipAttempt(remaining) == Trim(Substring(remaining, 1))

\* The call is at its while condition after n turns of the loop / has
\* returned after n turns.
Looping(remaining, responses, n) ==
    [t |-> "loop", remaining |-> remaining, responses |-> responses, n |-> n]
Returned(responses, n) == [t |-> "return", responses |-> responses, n |-> n]

\* One evaluation of the while condition and, when it holds, of the body.
ParseIterate(remaining, responses, n) ==
    IF Len(remaining) = 0 THEN Returned(responses, n)
    ELSE LET whole == JSONParse(remaining)
         IN IF whole.ok THEN Returned(Append(responses, whole.val), n + 1)
            ELSE LET endPos == FindEndPos(remaining, 1, 0, 0)
                 IN IF endPos = -1 THEN Returned(responses, n + 1)
                    ELSE LET p == JSONParse(Prefix(remaining, endPos))
                         IN IF p.ok
                            THEN Looping(Trim(Substring(remaining, endPos)),
                                         Append(responses, p.val), n + 1)
                            ELSE Looping(SkipAttempt(remaining), responses, n + 1)

\* The texts tried: every string of at most MaxText characters over braces,
\* quote, digit and blank, and some longer ones (a brace inside a string
\* value, two objects, a stray closing brace before an object, plain text).
MaxText == 4
TextAlphabet == {"{", "}", Q, "1", " "}
RECURSIVE TextsOfLen(_)
TextsOfLen(n) ==
    IF n = 0 THEN {<<>>}
    ELSE {Append(s, ch) : s \in TextsOfLen(n - 1), ch \in TextAlphabet}
LongTexts ==
    { <<"{", Q, "a", Q, ":", Q, "}", Q, "}">>,
      <<"{", Q, "a", Q, ":", Q, "{", Q, "}">>,
      ExampleA \o ExampleB,
      <<"}">> \o ExampleA \o <<"\n">>,
      <<"{">> \o ExampleA \o ExampleB,
      <<"{", "{", "}", "x", "}", "}", "{", "}">>,
      <<"l", "o", "g", " ", "{", "x", "}", " ", "{", "}">> }
ParseTexts == UNION {TextsOfLen(n) : n \in 0..MaxText} \cup LongTexts
ParseArgs == {[fn |-> "_parseJsonResponses", text |-> t] : t \in ParseTexts}

\* _parseJsonResponses(text) is entered: 'let remaining = text.trim()'
ParseEnter ==
    /\ arg.fn = "_parseJsonResponses"
    /\ ret = NoRet
    /\ ret' = Looping(Trim(arg.text), <<>>, 0)
    /\ UNCHANGED <<arg, tvars, svars, rvars, cvars, quit, handlers, stderrSeen, skipped, avars>>

\* one turn of its while loop, or 'return responses'
ParseStep ==
    /\ arg.fn = "_parseJsonResponses"
    /\ ret.t = "loop"
    /\ ret' = ParseIterate(ret.remaining, ret.responses, ret.n)
    /\ UNCHANGED <<arg, tvars, svars, rvars, cvars, quit, handlers, stderrSeen, skipped, avars>>

InitParse ==
    /\ TInit /\ SIdle /\ RInit /\ CInit /\ AIdle
    /\ arg \in ParseArgs
    /\ ret = NoRet

NextParse == ParseEnter \/ ParseStep

SpecParse == InitParse /\ [][NextParse]_vars

\* C28: _parseJsonResponses terminates on every text and does not throw:
\* each turn of its loop either returns or leaves strictly less text to look
\* at; the turns taken plus the text left never exceed the length of the
\* trimmed input, so the loop takes at most that many turns; at the while
\* condition the next turn is defined (it loops or returns); and what the
\* call returns is the list of ParseJsonResponses.
C28_ParserTerminates ==
    /\ [][ret.t = "loop" =>
            \/ ret'.t = "return"
            \/ ret'.t = "loop" /\ Len(ret'.remaining) < Len(ret.remaining)]_vars
    /\ [](ret.t = "loop" =>
            /\ ret.n + Len(ret.remaining) <= Len(Trim(arg.text))
            /\ ParseIterate(ret.remaining, ret.responses, ret.n).t \in {"loop", "return"})
    /\ [](ret.t = "return" =>
            /\ ret.n <= Len(Trim(arg.text))
            /\ ret.responses = ParseJsonResponses(arg.text))

C28_Witness ==
    /\ arg.fn = "_parseJsonResponses"
    /\ arg.text = <<"1", " ", "{", "}">>
    /\ ret.t = "return"
    /\ ret.n = 2
    /\ ret.responses = <<Obj(<<>>)>>

\* Whether process p is stored in the registry: in activeProcesses, or as the
\* process of a connection of activeClients.
Stored(p) ==
    \/ \E i \in 1..Len(activeProcesses) : activeProcesses[i][2] = p
    \/ \E i \in 1..Len(activeClients) : activeClients[i][2].pid = p

\* C29: every child process that getOrCreateClient spawned, that is running
\* and has not been killed, and whose getOrCreateClient call is no longer
\* suspended in spawnMCPProcess, is stored in the registry, where
\* cleanupClients finds it.
C29_NoOrphan ==
    \A c \in SpawnCalls :
        (/\ calls[c].pc # "spawn"
         /\ procs[calls[c].pid].state = "running"
         /\ ~procs[calls[c].pid].killed) => Stored(calls[c].pid)

\* ------------------------------------------- renderer: the approval gate

MaxMessages == 2
MaxApprovals == 3
MsgIds == 1..MaxMessages

\* pendingMCP of a message the assistant produced: status 'pending'.
PendingMCP == [status |-> "pending", executionState |-> "none", executed |-> 0]

\* executeMCPServer(serverName, args) is invoked for message m
Executed(m) == [messages EXCEPT ![m].executed = @ + 1]

ApprovalCall(fn, m, pc) == [fn |-> fn, msg |-> m, pc |-> pc]

\* approveMCPExecution(messageId) up to 'await db.saveChat': a message that is
\* not pending makes it return; otherwise the status becomes 'approved' and
\* the call is suspended.
ApproveMCPExecution(m) ==
    /\ m \in DOMAIN messages
    /\ Len(approvals) < MaxApprovals
    /\ IF messages[m].status # "pending"
       THEN /\ approvals' = Append(approvals, ApprovalCall("approve", m, "done"))
            /\ UNCHANGED messages
       ELSE /\ messages' = [messages EXCEPT ![m].status = "approved",
                                            ![m].executionState = "executing"]
            /\ approvals' = Append(approvals, ApprovalCall("approve", m, "save"))
    /\ UNCHANGED <<tvars, svars, rvars, cvars, quit, handlers, stderrSeen, skipped, fvars>>

\* db.saveChat has settled: executeMCPAndAddResult finds the message with its
\* pendingMCP and invokes executeMCPServer.
ExecuteMCPAndAddResult(a) ==
    /\ a \in 1..Len(approvals)
    /\ approvals[a].fn = "approve" /\ approvals[a].pc = "save"
    /\ messages' = Executed(approvals[a].msg)
    /\ approvals' = [approvals EXCEPT ![a].pc = "exec"]
    /\ UNCHANGED <<tvars, svars, rvars, cvars, quit, handlers, stderrSeen, skipped, fvars>>

\* executeMCPServer has settled inside executeMCPAndAddResult: the message is
\* marked complete, or approved with executionState 'error'.
ExecutionSettled(a, ok) ==
    /\ a \in 1..Len(approvals)
    /\ approvals[a].fn = "approve" /\ approvals[a].pc = "exec"
    /\ messages' = [messages EXCEPT
                      ![approvals[a].msg].executionState = IF ok THEN "complete" ELSE "error",
                      ![approvals[a].msg].status = IF ok THEN @ ELSE "approved"]
    /\ approvals' = [approvals EXCEPT ![a].pc = "done"]
    /\ UNCHANGED <<tvars, svars, rvars, cvars, quit, handlers, stderrSeen, skipped, fvars>>

\* denyMCPExecution(messageId): only a pending message becomes 'denied'.
DenyMCPExecution(m) ==
    /\ m \in DOMAIN messages
    /\ Len(approvals) < MaxApprovals
    /\ messages' = IF messages[m].status = "pending"
                   THEN [messages EXCEPT ![m].status = "denied"]
                   ELSE messages
    /\ approvals' = Append(approvals, ApprovalCall("deny", m, "done"))
    /\ UNCHANGED <<tvars, svars, rvars, cvars, quit, handlers, stderrSeen, skipped, fvars>>

\* handleMCPApproval(messageId, approved): the status is assigned whatever it
\* was, and for approved = true executeMCPServer is invoked.
HandleMCPApproval(m, approved) ==
    /\ m \in DOMAIN messages
    /\ Len(approvals) < MaxApprovals
    /\ LET set == [messages EXCEPT ![m].status = IF approved THEN "approved" ELSE "denied"]
       IN messages' = IF approved THEN [set EXCEPT ![m].executed = @ + 1] ELSE set
    /\ approvals' = Append(approvals, ApprovalCall("handle", m, "done"))
    /\ UNCHANGED <<tvars, svars, rvars, cvars, quit, handlers, stderrSeen, skipped, fvars>>

InitApproval ==
    /\ TInit /\ SIdle /\ RInit /\ CInit /\ FIdle
    /\ messages = [m \in MsgIds |-> PendingMCP]
    /\ approvals = <<>>

NextApproval ==
    \/ \E m \in MsgIds : ApproveMCPExecution(m)
    \/ \E a \in 1..MaxApprovals : ExecuteMCPAndAddResult(a)
    \/ \E a \in 1..MaxApprovals, ok \in BOOLEAN : ExecutionSettled(a, ok)
    \/ \E m \in MsgIds : DenyMCPExecution(m)
    \/ \E m \in MsgIds, approved \in BOOLEAN : HandleMCPApproval(m, approved)

SpecApproval == InitApproval /\ [][NextApproval]_vars

\* C30: executeMCPServer is invoked at most once for a message, and only for
\* a message that was not denied and whose status is 'approved' when it is
\* invoked; a status that has left 'pending' never returns to it.
C30_ApprovalGate ==
    /\ [](\A m \in DOMAIN messages : messages[m].executed <= 1)
    /\ [][\A m \in DOMAIN messages :
            /\ messages'[m].executed > messages[m].executed =>
                  /\ messages[m].status # "denied"
                  /\ messages'[m].status = "approved"
            /\ messages[m].status # "pending" => messages'[m].status # "pending"]_vars

====
